---- MODULE Spec2Model ----
(***************************************************************************)
(* Record/replay layer for HTTP traffic (Cypress Network Mock Recorder).   *)
(*                                                                         *)
(* Strings are TLA+ strings, i.e. sequences of characters: Len, SubSeq and *)
(* \o are the sequence operators applied to them.  The pure functions of   *)
(* matcher.ts and sanitizer.ts are operators over strings; the recorder    *)
(* (networkRecorder.ts), the store (mockStorage.ts) and the node-side      *)
(* tasks (cypress.config.ts) form the state machine below.                 *)
(***************************************************************************)
EXTENDS Integers, Sequences, FiniteSets, TLC

(***************************************************************************)
(* String helpers (JavaScript String.prototype methods).                   *)
(***************************************************************************)
CharAt(s, i) == SubSeq(s, i, i)

StartsWith(s, p) == Len(s) >= Len(p) /\ SubSeq(s, 1, Len(p)) = p

EndsWith(s, p) == Len(s) >= Len(p) /\ SubSeq(s, Len(s) - Len(p) + 1, Len(s)) = p

DropFirst(s, n) == SubSeq(s, n + 1, Len(s))

LowerChars == "abcdefghijklmnopqrstuvwxyz"
UpperChars == "ABCDEFGHIJKLMNOPQRSTUVWXYZ"
DigitChars == "0123456789"
Base36Chars == "0123456789abcdefghijklmnopqrstuvwxyz"

IsIn(ch, chars) == \E i \in 1..Len(chars) : CharAt(chars, i) = ch

PosIn(ch, chars) == CHOOSE i \in 1..Len(chars) : CharAt(chars, i) = ch

IsDigit(ch) == IsIn(ch, DigitChars)

\* String.prototype.charCodeAt for the characters the model's strings use
CharCode(ch) ==
    IF IsIn(ch, LowerChars) THEN 96 + PosIn(ch, LowerChars)
    ELSE IF IsIn(ch, UpperChars) THEN 64 + PosIn(ch, UpperChars)
    ELSE IF IsIn(ch, DigitChars) THEN 47 + PosIn(ch, DigitChars)
    ELSE CASE ch = " " -> 32
           [] ch = "%" -> 37
           [] ch = "&" -> 38
           [] ch = "*" -> 42
           [] ch = "+" -> 43
           [] ch = "," -> 44
           [] ch = "-" -> 45
           [] ch = "." -> 46
           [] ch = "/" -> 47
           [] ch = ":" -> 58
           [] ch = "=" -> 61
           [] ch = "?" -> 63
           [] ch = "@" -> 64
           [] ch = "_" -> 95

LowerChar(ch) == IF IsIn(ch, UpperChars) THEN CharAt(LowerChars, PosIn(ch, UpperChars)) ELSE ch

UpperChar(ch) == IF IsIn(ch, LowerChars) THEN CharAt(UpperChars, PosIn(ch, LowerChars)) ELSE ch

RECURSIVE ToLowerCase(_)
ToLowerCase(s) ==
    IF Len(s) = 0 THEN "" ELSE LowerChar(CharAt(s, 1)) \o ToLowerCase(DropFirst(s, 1))

RECURSIVE ToUpperCase(_)
ToUpperCase(s) ==
    IF Len(s) = 0 THEN "" ELSE UpperChar(CharAt(s, 1)) \o ToUpperCase(DropFirst(s, 1))

\* position of the first occurrence of the character ch in s, 0 if none
RECURSIVE IndexOfFrom(_, _, _)
IndexOfFrom(s, ch, i) ==
    IF i > Len(s) THEN 0
    ELSE IF CharAt(s, i) = ch THEN i
    ELSE IndexOfFrom(s, ch, i + 1)

IndexOf(s, ch) == IndexOfFrom(s, ch, 1)

\* String.prototype.split on a single character: a sequence of strings
RECURSIVE Split(_, _)
Split(s, ch) ==
    LET i == IndexOf(s, ch)
    IN IF i = 0 THEN <<s>>
       ELSE <<SubSeq(s, 1, i - 1)>> \o Split(DropFirst(s, i), ch)

\* Array.prototype.join
RECURSIVE Join(_, _)
Join(parts, sep) ==
    IF Len(parts) = 0 THEN ""
    ELSE IF Len(parts) = 1 THEN parts[1]
    ELSE parts[1] \o sep \o Join(Tail(parts), sep)

\* s.replace(/x/g, y) for single characters x, y
RECURSIVE ReplaceAllChar(_, _, _)
ReplaceAllChar(s, x, y) ==
    IF Len(s) = 0 THEN ""
    ELSE (IF CharAt(s, 1) = x THEN y ELSE CharAt(s, 1)) \o ReplaceAllChar(DropFirst(s, 1), x, y)

\* comparison of strings by UTF-16 code units, as Array.prototype.sort does
RECURSIVE StrLess(_, _)
StrLess(a, b) ==
    IF Len(b) = 0 THEN FALSE
    ELSE IF Len(a) = 0 THEN TRUE
    ELSE IF CharAt(a, 1) = CharAt(b, 1) THEN StrLess(DropFirst(a, 1), DropFirst(b, 1))
    ELSE CharCode(CharAt(a, 1)) < CharCode(CharAt(b, 1))

\* stable insertion of the string e into a sequence sorted by StrLess
RECURSIVE InsertString(_, _)
InsertString(e, seq) ==
    IF Len(seq) = 0 THEN <<e>>
    ELSE IF StrLess(e, seq[1]) THEN <<e>> \o seq
    ELSE <<seq[1]>> \o InsertString(e, Tail(seq))

\* Array.prototype.sort() of an array of strings (default comparison, stable)
RECURSIVE SortStrings(_)
SortStrings(seq) ==
    IF Len(seq) = 0 THEN <<>>
    ELSE InsertString(seq[Len(seq)], SortStrings(SubSeq(seq, 1, Len(seq) - 1)))

\* an array [k, v] converted to a string by the default sort comparison
EntryString(e) == e[1] \o "," \o e[2]

RECURSIVE InsertEntry(_, _)
InsertEntry(e, seq) ==
    IF Len(seq) = 0 THEN <<e>>
    ELSE IF StrLess(EntryString(e), EntryString(seq[1])) THEN <<e>> \o seq
    ELSE <<seq[1]>> \o InsertEntry(e, Tail(seq))

\* Array.prototype.sort() of an array of [key, value] pairs: the default
\* comparison converts each pair to the string "key,value"
RECURSIVE SortEntries(_)
SortEntries(seq) ==
    IF Len(seq) = 0 THEN <<>>
    ELSE InsertEntry(seq[Len(seq)], SortEntries(SubSeq(seq, 1, Len(seq) - 1)))

(***************************************************************************)
(* URL and URLSearchParams (the WHATWG URL API the source calls).          *)
(* The model's URL strings are relative references or URLs with a scheme,  *)
(* made of letters, digits and the characters / ? & = . _ - + : @ and      *)
(* space, without dot segments, fragment, port or credentials, and         *)
(* relative references without a leading "//".                             *)
(***************************************************************************)
\* characters application/x-www-form-urlencoded serialisation leaves alone
FormSafeChars == LowerChars \o UpperChars \o DigitChars \o "*-._"

Hex2(ch) ==
    CASE ch = "%" -> "%25" [] ch = "&" -> "%26" [] ch = "+" -> "%2B"
      [] ch = "," -> "%2C" [] ch = "/" -> "%2F" [] ch = ":" -> "%3A"
      [] ch = "=" -> "%3D" [] ch = "?" -> "%3F" [] ch = "@" -> "%40"

\* URLSearchParams.prototype.toString applied to one name or value
RECURSIVE FormEncode(_)
FormEncode(s) ==
    IF Len(s) = 0 THEN ""
    ELSE LET ch == CharAt(s, 1)
         IN (IF IsIn(ch, FormSafeChars) THEN ch
             ELSE IF ch = " " THEN "+"
             ELSE Hex2(ch)) \o FormEncode(DropFirst(s, 1))

\* the URL parser's percent-encoding of a path or a query: a space becomes %20
RECURSIVE UrlEncode(_)
UrlEncode(s) ==
    IF Len(s) = 0 THEN ""
    ELSE (IF CharAt(s, 1) = " " THEN "%20" ELSE CharAt(s, 1)) \o UrlEncode(DropFirst(s, 1))

\* the percent-encoded bytes the model's strings may hold
HexCodes == {"%20", "%25", "%26", "%2B", "%2C", "%2F", "%3A", "%3D", "%3F", "%40"}

Unhex(code) ==
    CASE code = "%20" -> " " [] code = "%25" -> "%" [] code = "%26" -> "&"
      [] code = "%2B" -> "+" [] code = "%2C" -> "," [] code = "%2F" -> "/"
      [] code = "%3A" -> ":" [] code = "%3D" -> "=" [] code = "%3F" -> "?"
      [] code = "%40" -> "@"

\* URLSearchParams parsing of one name or value: + becomes a space and a
\* percent-encoded byte is decoded
RECURSIVE FormDecode(_)
FormDecode(s) ==
    IF Len(s) = 0 THEN ""
    ELSE IF CharAt(s, 1) = "+" THEN " " \o FormDecode(DropFirst(s, 1))
    ELSE IF Len(s) >= 3 /\ SubSeq(s, 1, 3) \in HexCodes
    THEN Unhex(SubSeq(s, 1, 3)) \o FormDecode(DropFirst(s, 3))
    ELSE CharAt(s, 1) \o FormDecode(DropFirst(s, 1))

\* one "name=value" piece of a query string as a [name, value] pair
ParsePair(piece) ==
    LET i == IndexOf(piece, "=")
    IN IF i = 0 THEN <<FormDecode(piece), "">>
       ELSE <<FormDecode(SubSeq(piece, 1, i - 1)), FormDecode(DropFirst(piece, i))>>

RECURSIVE ParsePairs(_)
ParsePairs(pieces) ==
    IF Len(pieces) = 0 THEN <<>>
    ELSE (IF pieces[1] = "" THEN <<>> ELSE <<ParsePair(pieces[1])>>) \o ParsePairs(Tail(pieces))

\* new URLSearchParams(search): the sequence of [name, value] entries
SearchParams(search) ==
    LET q == IF StartsWith(search, "?") THEN DropFirst(search, 1) ELSE search
    IN ParsePairs(Split(q, "&"))

RECURSIVE SerializePairs(_)
SerializePairs(entries) ==
    IF Len(entries) = 0 THEN <<>>
    ELSE <<FormEncode(entries[1][1]) \o "=" \o FormEncode(entries[1][2])>>
         \o SerializePairs(Tail(entries))

\* URLSearchParams.prototype.toString
SearchParamsToString(entries) == Join(SerializePairs(entries), "&")

RECURSIVE AllLetters(_)
AllLetters(s) ==
    Len(s) = 0 \/ (IsIn(CharAt(s, 1), LowerChars \o UpperChars) /\ AllLetters(DropFirst(s, 1)))

\* the scheme a URL string begins with, in lower case; "" if it has none
SchemeOf(url) ==
    LET i == IndexOf(url, ":")
    IN IF i > 1 /\ AllLetters(SubSeq(url, 1, i - 1))
       THEN ToLowerCase(SubSeq(url, 1, i - 1)) ELSE ""

\* the schemes whose URLs always have a host and a path
SpecialSchemes == {"http", "https", "ftp", "ws", "wss"}

RECURSIVE StripLeadingSlashes(_)
StripLeadingSlashes(s) ==
    IF StartsWith(s, "/") THEN StripLeadingSlashes(DropFirst(s, 1)) ELSE s

\* the URL record of a scheme, a host and the path after the host; a special
\* scheme without a host is a failure
HostUrl(scheme, host, hostPath, search) ==
    IF scheme \in SpecialSchemes /\ host = ""
    THEN [ok |-> FALSE, origin |-> "", pathname |-> "", search |-> ""]
    ELSE [ok |-> TRUE,
          origin |-> IF scheme \in SpecialSchemes
                     THEN scheme \o "://" \o ToLowerCase(host) ELSE "null",
          pathname |-> IF hostPath = "" /\ scheme \in SpecialSchemes THEN "/"
                       ELSE UrlEncode(hostPath),
          search |-> search]

\* an authority (host, then the path from its first "/") cut at position slash
AuthorityAt(scheme, authority, slash, search) ==
    HostUrl(scheme,
            IF slash = 0 THEN authority ELSE SubSeq(authority, 1, slash - 1),
            IF slash = 0 THEN "" ELSE DropFirst(authority, slash - 1),
            search)

AuthorityUrl(scheme, authority, search) ==
    AuthorityAt(scheme, authority, IndexOf(authority, "/"), search)

\* what follows "scheme:" up to the query: an authority for a special scheme
\* (any number of leading slashes) or after "//", an opaque path otherwise
SchemeUrl(scheme, beforeQuery, search) ==
    IF scheme \notin SpecialSchemes /\ ~StartsWith(beforeQuery, "//")
    THEN [ok |-> TRUE, origin |-> "null", pathname |-> UrlEncode(beforeQuery),
          search |-> search]
    ELSE AuthorityUrl(scheme,
                      IF scheme \in SpecialSchemes THEN StripLeadingSlashes(beforeQuery)
                      ELSE DropFirst(beforeQuery, 2),
                      search)

\* the search of a URL whose query text is rawQuery
SearchOf(rawQuery) == IF rawQuery = "" THEN "" ELSE "?" \o UrlEncode(rawQuery)

\* what follows "scheme:" cut at position q of its first "?"
SplitQueryAt(scheme, rest, q) ==
    SchemeUrl(scheme,
              IF q = 0 THEN rest ELSE SubSeq(rest, 1, q - 1),
              SearchOf(IF q = 0 THEN "" ELSE DropFirst(rest, q)))

AfterScheme(scheme, rest) == SplitQueryAt(scheme, rest, IndexOf(rest, "?"))

UrlOfScheme(scheme, url) == AfterScheme(scheme, DropFirst(url, Len(scheme) + 1))

\* a URL string with a scheme, parsed on its own: scheme://host/path for a
\* special scheme (a missing host is a failure), an opaque path otherwise
ParseAbsoluteUrl(url) == UrlOfScheme(SchemeOf(url), url)

\* new URL(url, baseUrl).  An empty base is not a valid URL, so the
\* constructor throws whenever baseUrl is ''; with the base http://localhost
\* an input with a scheme is parsed on its own and any other input is
\* resolved as a relative reference.
ParseUrl(url, baseUrl) ==
    IF baseUrl = "" THEN [ok |-> FALSE, origin |-> "", pathname |-> "", search |-> ""]
    ELSE IF SchemeOf(url) # "" THEN ParseAbsoluteUrl(url)
    ELSE LET q == IndexOf(url, "?")
             rawPath == IF q = 0 THEN url ELSE SubSeq(url, 1, q - 1)
             rawQuery == IF q = 0 THEN "" ELSE DropFirst(url, q)
         IN [ok |-> TRUE,
             origin |-> baseUrl,
             pathname |-> (IF StartsWith(rawPath, "/") THEN "" ELSE "/") \o UrlEncode(rawPath),
             search |-> IF rawQuery = "" THEN "" ELSE "?" \o UrlEncode(rawQuery)]

\* const baseUrl = url.startsWith('http') ? '' : 'http://localhost'
BaseUrlFor(url) == IF StartsWith(url, "http") THEN "" ELSE "http://localhost"

(***************************************************************************)
(* matcher.ts                                                              *)
(***************************************************************************)
\* what a caller would see if the TypeError of new URL escaped the function
InvalidUrlError == "TypeError: Invalid URL"

\* a normalizeUrl without its catch clause: the TypeError escapes
normalizeUrlWithoutCatch(url) ==
    LET urlObj == ParseUrl(url, BaseUrlFor(url))
        sortedParams == SortEntries(SearchParams(urlObj.search))
        normalizedSearch == SearchParamsToString(sortedParams)
        search == IF normalizedSearch # "" THEN "?" \o normalizedSearch ELSE ""
    IN IF ~urlObj.ok THEN InvalidUrlError
       ELSE IF StartsWith(url, "http") THEN urlObj.origin \o urlObj.pathname \o search
       ELSE urlObj.pathname \o search

\* normalizeUrl: the catch clause returns the input
normalizeUrl(url) ==
    LET urlObj == ParseUrl(url, BaseUrlFor(url))
        sortedParams == SortEntries(SearchParams(urlObj.search))
        normalizedSearch == SearchParamsToString(sortedParams)
        search == IF normalizedSearch # "" THEN "?" \o normalizedSearch ELSE ""
    IN IF ~urlObj.ok THEN url
       ELSE IF StartsWith(url, "http") THEN urlObj.origin \o urlObj.pathname \o search
       ELSE urlObj.pathname \o search

extractPathname(url) ==
    LET urlObj == ParseUrl(url, BaseUrlFor(url))
    IN IF ~urlObj.ok THEN Split(url, "?")[1] ELSE urlObj.pathname

\* the object built by searchParams.forEach: a later value of a name
\* overwrites an earlier one
RECURSIVE ParamsObject(_)
ParamsObject(entries) ==
    IF Len(entries) = 0 THEN <<>>
    ELSE LET rest == ParamsObject(SubSeq(entries, 1, Len(entries) - 1))
             last == entries[Len(entries)]
         IN [k \in (DOMAIN rest) \cup {last[1]} |-> IF k = last[1] THEN last[2] ELSE rest[k]]

extractQueryParams(url) ==
    LET urlObj == ParseUrl(url, BaseUrlFor(url))
    IN IF ~urlObj.ok THEN <<>> ELSE ParamsObject(SearchParams(urlObj.search))

createRequestSignature(method, url) ==
    [method |-> ToUpperCase(method),
     url |-> url,
     normalizedUrl |-> normalizeUrl(url),
     queryParams |-> extractQueryParams(url),
     pathname |-> extractPathname(url)]

\* keeps the characters of s that match [a-zA-Z0-9_-]
RECURSIVE KeepFileChars(_)
KeepFileChars(s) ==
    IF Len(s) = 0 THEN ""
    ELSE (IF IsIn(CharAt(s, 1), LowerChars \o UpperChars \o DigitChars \o "_-")
          THEN CharAt(s, 1) ELSE "") \o KeepFileChars(DropFirst(s, 1))

\* the 32-bit hash as an unsigned pair <<high 16 bits, low 16 bits>>:
\* hash = ((hash << 5) - hash) + char; hash = hash & hash
RECURSIVE HashBits(_, _)
HashBits(str, h) ==
    IF Len(str) = 0 THEN h
    ELSE LET lo == h[2] * 31 + CharCode(CharAt(str, 1))
             hi == h[1] * 31 + (lo \div 65536)
         IN HashBits(DropFirst(str, 1), <<hi % 65536, lo % 65536>>)

\* Number.prototype.toString(36) of a non-negative integer
RECURSIVE ToBase36(_)
ToBase36(n) ==
    IF n < 36 THEN CharAt(Base36Chars, n + 1)
    ELSE ToBase36(n \div 36) \o CharAt(Base36Chars, (n % 36) + 1)

\* String.prototype.substring(0, n)
Substring0(s, n) == SubSeq(s, 1, IF Len(s) < n THEN Len(s) ELSE n)

\* Math.abs(hash).toString(36).substring(0, 6)
simpleHash(str) ==
    LET h == HashBits(str, <<0, 0>>)
    IN IF h[1] < 32768 THEN Substring0(ToBase36(h[1] * 65536 + h[2]), 6)
       ELSE IF h[1] = 32768 /\ h[2] = 0 THEN Substring0("zik0zk", 6)
       ELSE Substring0(ToBase36((65535 - h[1]) * 65536 + (65536 - h[2])), 6)

\* the set of names of an object as a sequence in some order (sorted by the caller)
RECURSIVE SetToSeq(_)
SetToSeq(S) ==
    IF S = {} THEN <<>>
    ELSE LET x == CHOOSE x \in S : TRUE IN <<x>> \o SetToSeq(S \ {x})

RECURSIVE KeyValueStrings(_, _)
KeyValueStrings(keys, params) ==
    IF Len(keys) = 0 THEN <<>>
    ELSE <<keys[1] \o "=" \o params[keys[1]]>> \o KeyValueStrings(Tail(keys), params)

generateMockFilename(signature) ==
    LET stripped == IF StartsWith(signature.pathname, "/")
                    THEN DropFirst(signature.pathname, 1) ELSE signature.pathname
        cleaned == KeepFileChars(ReplaceAllChar(stripped, "/", "_"))
        cleanPath == IF cleaned = "" THEN "root" ELSE cleaned
        keys == SortStrings(SetToSeq(DOMAIN signature.queryParams))
        queryString == Join(KeyValueStrings(keys, signature.queryParams), "&")
        withHash == IF queryString # "" THEN cleanPath \o "_" \o simpleHash(queryString)
                    ELSE cleanPath
    IN ToLowerCase(signature.method) \o "_" \o withHash \o ".json"

\* /^\d+$/
RECURSIVE AllDigits(_)
AllDigits(s) == Len(s) = 0 \/ (IsDigit(CharAt(s, 1)) /\ AllDigits(DropFirst(s, 1)))

IsNumeric(s) == Len(s) > 0 /\ AllDigits(s)

\* .filter(s => s && !s.match(/^\d+$/))
RECURSIVE FilterSegments(_)
FilterSegments(segs) ==
    IF Len(segs) = 0 THEN <<>>
    ELSE (IF segs[1] # "" /\ ~IsNumeric(segs[1]) THEN <<segs[1]>> ELSE <<>>)
         \o FilterSegments(Tail(segs))

\* config.mockDir: defaultConfig.mockDir, the value cypress.config.ts also sets
mockDir == "cypress/mocks"

generateMockPath(signature) ==
    LET filename == generateMockFilename(signature)
        kept == FilterSegments(Split(signature.pathname, "/"))
        pathSegments == SubSeq(kept, 1, IF Len(kept) < 2 THEN Len(kept) ELSE 2)
        joined == Join(pathSegments, "/")
        subDir == IF joined = "" THEN "api" ELSE joined
    IN mockDir \o "/" \o subDir \o "/" \o filename

\* config.excludePatterns: an extension at the end of the URL, or a path prefix
ExcludeExtensions ==
    {"js", "css", "png", "jpg", "jpeg", "gif", "svg", "woff", "woff2", "ttf", "ico"}

ExcludePrefixes == {"/static/", "/assets/", "/_next/", "/__cypress/"}

MatchesExclude(url) ==
    LET u == ToLowerCase(url)
    IN \/ \E e \in ExcludeExtensions : EndsWith(u, "." \o e)
       \/ \E p \in ExcludePrefixes : StartsWith(u, p)

\* /(api|graphql|v[0-9]+)/ starting at position i of u
RECURSIVE VersionSegmentAt(_, _)
VersionSegmentAt(u, i) ==
    /\ i <= Len(u)
    /\ IsDigit(CharAt(u, i))
    /\ (CharAt(u, i + 1) = "/" \/ VersionSegmentAt(u, i + 1))

ApiSegmentAt(u, i) ==
    \/ StartsWith(DropFirst(u, i - 1), "/api/")
    \/ StartsWith(DropFirst(u, i - 1), "/graphql/")
    \/ (StartsWith(DropFirst(u, i - 1), "/v") /\ VersionSegmentAt(u, i + 2))

\* config.includePatterns: '^/api/' and '^https?://.*/(api|graphql|v[0-9]+)/'
MatchesInclude(url) ==
    LET u == ToLowerCase(url)
        afterScheme == IF StartsWith(u, "http://") THEN 8
                       ELSE IF StartsWith(u, "https://") THEN 9 ELSE 0
    IN \/ StartsWith(u, "/api/")
       \/ (afterScheme > 0 /\ \E i \in afterScheme..Len(u) : ApiSegmentAt(u, i))

\* a shouldRecordUrl that looks at the include patterns first
shouldRecordUrlIncludeFirst(url) ==
    IF MatchesInclude(url) THEN TRUE
    ELSE IF MatchesExclude(url) THEN FALSE
    ELSE TRUE

shouldRecordUrl(url) ==
    IF MatchesExclude(url) THEN FALSE
    ELSE IF MatchesInclude(url) THEN TRUE
    ELSE TRUE

(***************************************************************************)
(* sanitizer.ts.  A header object is a function from header names to       *)
(* values.                                                                 *)
(***************************************************************************)
REMOVED == "***REMOVED***"

\* defaultConfig.sanitizeHeaders (getConfig never overrides it)
configSanitizeHeaders ==
    {"authorization", "cookie", "set-cookie", "x-auth-token", "x-api-key",
     "x-access-token", "x-csrf-token", "x-xsrf-token"}

defaultSanitizeOptions ==
    [sanitizeHeaders |-> TRUE, sanitizeCookies |-> TRUE,
     sanitizePII |-> FALSE, maskAuthValues |-> TRUE]

\* config.sanitizeHeaders.some(h => lowerKey === h.toLowerCase())
InSanitizeList(key) ==
    \E h \in configSanitizeHeaders : ToLowerCase(key) = ToLowerCase(h)

IsCookieHeader(key) == ToLowerCase(key) \in {"cookie", "set-cookie"}

\* options.<name> used as a condition: a field the caller left out is
\* undefined, which counts as false
OptionSet(options, name) == name \in DOMAIN options /\ options[name]

\* sanitizeHeaders comparing the header name as written, not lower-cased
sanitizeHeadersCaseSensitive(headers, options) ==
    IF ~OptionSet(options, "sanitizeHeaders") THEN headers
    ELSE LET listed(key) == key \in configSanitizeHeaders
             kept == {key \in DOMAIN headers : listed(key) => OptionSet(options, "maskAuthValues")}
         IN [key \in kept |->
                IF listed(key) THEN REMOVED
                ELSE IF OptionSet(options, "sanitizeCookies") /\ IsCookieHeader(key) THEN REMOVED
                ELSE headers[key]]

\* the object sanitizeHeaders returns
sanitizeHeaders(headers, options) ==
    IF ~OptionSet(options, "sanitizeHeaders") THEN headers
    ELSE LET kept == {key \in DOMAIN headers :
                         InSanitizeList(key) => OptionSet(options, "maskAuthValues")}
         IN [key \in kept |->
                IF InSanitizeList(key) THEN REMOVED
                ELSE IF OptionSet(options, "sanitizeCookies") /\ IsCookieHeader(key) THEN REMOVED
                ELSE headers[key]]

\* a sanitizeHeaders that writes the masked values into its argument
HeadersAfterSanitizeInPlace(headers, options) == sanitizeHeaders(headers, options)

\* the object passed to sanitizeHeaders, as it is after the call: the
\* function writes to the fresh object "sanitized" only
HeadersAfterSanitize(headers, options) == headers

sensitiveParams ==
    <<"token", "access_token", "api_key", "apikey", "auth", "key", "secret",
      "password", "pwd">>

HasParam(entries, name) == \E i \in 1..Len(entries) : entries[i][1] = name

\* URLSearchParams.prototype.set: the first entry of that name takes the
\* value, the other entries of that name are removed
RECURSIVE SetParam(_, _, _, _)
SetParam(entries, name, value, seen) ==
    IF Len(entries) = 0 THEN <<>>
    ELSE IF entries[1][1] = name
         THEN (IF seen THEN <<>> ELSE <<<<name, value>>>>)
              \o SetParam(Tail(entries), name, value, TRUE)
         ELSE <<entries[1]>> \o SetParam(Tail(entries), name, value, seen)

RECURSIVE MaskParams(_, _)
MaskParams(entries, names) ==
    IF Len(names) = 0 THEN entries
    ELSE MaskParams(IF HasParam(entries, names[1])
                    THEN SetParam(entries, names[1], REMOVED, FALSE)
                    ELSE entries,
                    Tail(names))

sanitizeUrl(url) ==
    LET urlObj == ParseUrl(url, BaseUrlFor(url))
        entries == SearchParams(urlObj.search)
        masked == MaskParams(entries, sensitiveParams)
        anySet == \E i \in 1..Len(sensitiveParams) : HasParam(entries, sensitiveParams[i])
        search == IF ~anySet THEN urlObj.search
                  ELSE "?" \o SearchParamsToString(masked)
    IN IF ~urlObj.ok THEN url
       ELSE IF StartsWith(url, "http") THEN urlObj.origin \o urlObj.pathname \o search
       ELSE urlObj.pathname \o search

\* sanitizeBody with PII sanitization off (the default, and the only way
\* the recorder's data reaches it): the body is returned as it is
sanitizeBody(body, options) == body

\* the full pipeline; a missing body stays missing
sanitizeRecordedData(data, options) ==
    [url |-> sanitizeUrl(data.url),
     requestHeaders |-> sanitizeHeaders(data.requestHeaders, options),
     responseHeaders |-> sanitizeHeaders(data.responseHeaders, options),
     requestBody |-> sanitizeBody(data.requestBody, options),
     responseBody |-> sanitizeBody(data.responseBody, options)]

\* config.dynamicPlaceholder: defaultConfig.dynamicPlaceholder (getConfig
\* never overrides it)
dynamicPlaceholder == "{{DYNAMIC}}"

\* JSON data: a string, an array, an object (a function from field names to
\* data) or any other value, each under the name of its type
Str(s) == [str |-> s]

Arr(items) == [arr |-> items]

Obj(fields) == [obj |-> fields]

Other(v) == [other |-> v]

\* typeof data === 'string', Array.isArray(data), typeof data === 'object'
IsStr(data) == DOMAIN data = {"str"}

IsArr(data) == DOMAIN data = {"arr"}

IsObj(data) == DOMAIN data = {"obj"}

\* String.prototype.includes
Includes(s, pat) ==
    \E i \in 0..(Len(s) - Len(pat)) : SubSeq(s, i + 1, i + Len(pat)) = pat

\* s.replace(new RegExp(escapeRegex(pat), 'g'), rep) for a non-empty pat:
\* every occurrence of pat, from left to right, is replaced
RECURSIVE ReplaceAll(_, _, _)
ReplaceAll(s, pat, rep) ==
    IF Len(s) < Len(pat) \/ Len(pat) = 0 THEN s
    ELSE IF SubSeq(s, 1, Len(pat)) = pat
         THEN rep \o ReplaceAll(DropFirst(s, Len(pat)), pat, rep)
         ELSE SubSeq(s, 1, 1) \o ReplaceAll(DropFirst(s, 1), pat, rep)

\* s.replace(pat, rep) with a string pat: the first occurrence is replaced
RECURSIVE ReplaceFirst(_, _, _)
ReplaceFirst(s, pat, rep) ==
    IF Len(s) < Len(pat) THEN s
    ELSE IF SubSeq(s, 1, Len(pat)) = pat THEN rep \o DropFirst(s, Len(pat))
    ELSE SubSeq(s, 1, 1) \o ReplaceFirst(DropFirst(s, 1), pat, rep)

\* `{{${field}}}`
Token(field) == "{{" \o field \o "}}"

\* the loop of applyDynamicPlaceholders over the patterns for a string:
\* includes is tested on the original string, replace works on the result
RECURSIVE ApplyPatterns(_, _, _)
ApplyPatterns(data, result, patterns) ==
    IF Len(patterns) = 0 THEN result
    ELSE ApplyPatterns(data,
                       IF Includes(data, patterns[1].value)
                       THEN ReplaceAll(result, patterns[1].value, Token(patterns[1].field))
                       ELSE result,
                       Tail(patterns))

\* patterns.find(p => p.field === key): its index, 0 if there is none
FindPattern(patterns, key) ==
    IF \E i \in 1..Len(patterns) : patterns[i].field = key
    THEN CHOOSE i \in 1..Len(patterns) :
            /\ patterns[i].field = key
            /\ \A j \in 1..(i - 1) : patterns[j].field # key
    ELSE 0

\* value === matchingPattern.value for the field key of an object
FieldIsTracked(value, patterns, key) ==
    /\ FindPattern(patterns, key) # 0
    /\ IsStr(value)
    /\ value.str = patterns[FindPattern(patterns, key)].value

RECURSIVE applyDynamicPlaceholders(_, _)
applyDynamicPlaceholders(data, patterns) ==
    IF IsStr(data)
    THEN Str(ApplyPatterns(data.str, data.str, patterns))
    ELSE IF IsArr(data)
    THEN Arr([i \in DOMAIN data.arr |->
                 applyDynamicPlaceholders(data.arr[i], patterns)])
    ELSE IF IsObj(data)
    THEN Obj([key \in DOMAIN data.obj |->
                 IF FieldIsTracked(data.obj[key], patterns, key)
                 THEN Str(dynamicPlaceholder)
                 ELSE applyDynamicPlaceholders(data.obj[key], patterns)])
    ELSE data

\* values as Object.entries lists it: [key, value] pairs in insertion order
HasKey(values, key) == \E i \in 1..Len(values) : values[i][1] = key

ValueAt(values, key) == values[CHOOSE i \in 1..Len(values) : values[i][1] = key][2]

\* the loop of resolveDynamicPlaceholders over the entries for a string
RECURSIVE ResolveEntries(_, _)
ResolveEntries(result, values) ==
    IF Len(values) = 0 THEN result
    ELSE ResolveEntries(ReplaceFirst(result, Token(values[1][1]), values[1][2]),
                        Tail(values))

RECURSIVE resolveDynamicPlaceholders(_, _)
resolveDynamicPlaceholders(data, values) ==
    IF IsStr(data)
    THEN IF data.str = dynamicPlaceholder
         THEN IF HasKey(values, "_default") THEN Str(ValueAt(values, "_default")) ELSE data
         ELSE Str(ResolveEntries(data.str, values))
    ELSE IF IsArr(data)
    THEN Arr([i \in DOMAIN data.arr |->
                 resolveDynamicPlaceholders(data.arr[i], values)])
    ELSE IF IsObj(data)
    THEN Obj([key \in DOMAIN data.obj |->
                 IF /\ IsStr(data.obj[key])
                    /\ data.obj[key].str = dynamicPlaceholder
                    /\ HasKey(values, key)
                 THEN Str(ValueAt(values, key))
                 ELSE resolveDynamicPlaceholders(data.obj[key], values)])
    ELSE data

(***************************************************************************)
(* The recorder, the store and the node-side tasks as a state machine.     *)
(***************************************************************************)
\* number of HTTP calls (and direct saveMock calls) of one run
MaxCalls == 2

Calls == 1..MaxCalls

\* a request or response body
Body(text) == [data |-> text]

\* requests the test subject issues: method, URL, headers, body
RequestPool ==
    { [method |-> "GET", url |-> "/posts?token=abc123",
       headers |-> [Authorization |-> "Bearer abc123", accept |-> "json"],
       body |-> Body("")],
      [method |-> "delete", url |-> "http://host/posts/1",
       headers |-> [Cookie |-> "sid=1"], body |-> Body("x")],
      [method |-> "GET", url |-> "/static/app.js",
       headers |-> [Authorization |-> "Bearer abc123"], body |-> Body("")] }

\* responses of the real backend
ResponsePool ==
    { [statusCode |-> 200, statusMessage |-> "OK",
       headers |-> [a \in {"Set-Cookie", "content-type"} |->
                       IF a = "Set-Cookie" THEN "sid=9" ELSE "json"],
       body |-> Body("posts")],
      [statusCode |-> 404, statusMessage |-> "Not Found",
       headers |-> [a \in {"X-Auth-Token"} |-> "t0"],
       body |-> Body("missing")] }

\* values of Cypress.env('MODE'); NoEnv is an unset variable
NoEnv == "<unset>"

EnvModes == {"record", "REPLAY", "mock", NoEnv}

NoRequest == [method |-> "", url |-> "", headers |-> <<>>, body |-> Body("")]

NoResponse == [statusCode |-> 0, statusMessage |-> "", headers |-> <<>>, body |-> Body("")]

\* null, as readMock and loadMock return it
Null == [isNull |-> TRUE]

\* content of a file that is not valid JSON: JSON.parse throws on it
Corrupt == [isCorrupt |-> TRUE]

NoCall ==
    [pc |-> "idle", via |-> "none", req |-> NoRequest, res |-> NoResponse,
     mock |-> Null, loaded |-> Null, delivered |-> Null, backendCalls |-> 0,
     kind |-> "none", written |-> FALSE, autoFallback |-> FALSE,
     counted |-> FALSE, expectHit |-> FALSE, filePath |-> "",
     error |-> "", listing |-> <<>>]

VARIABLES
    isRecording, isReplaying,          \* networkRecorder.ts flags
    currentMode,                       \* history: getMode() as the last initialize read it
    interceptedRequests, recordedRequests, replayedRequests,
    handler,                           \* the cy.intercept('**') handler in force
    handlerAutoFallback,               \* config.autoFallback captured by setupReplayMode
    mockCache,                         \* mockStorage.ts cache: cache key -> mock
    sessionMocks,                      \* mockStorage.ts list of saved paths
    files,                             \* the mock directory: path -> stored mock
    clearTasks,                        \* clearMocks tasks issued and not yet run
    calls,                             \* the calls in flight or finished
    repaired                           \* history: requests whose auto-fallback save
                                       \* completed, and no clear since the write

vars ==
    <<isRecording, isReplaying, currentMode, interceptedRequests, recordedRequests,
      replayedRequests, handler, handlerAutoFallback, mockCache, sessionMocks,
      files, clearTasks, calls, repaired>>

recorderVars ==
    <<isRecording, isReplaying, currentMode, interceptedRequests, recordedRequests,
      replayedRequests, handler, handlerAutoFallback>>

storeVars == <<mockCache, sessionMocks, files, clearTasks, repaired>>

Init ==
    /\ isRecording = FALSE
    /\ isReplaying = FALSE
    /\ currentMode = "passthrough"
    /\ interceptedRequests = 0
    /\ recordedRequests = 0
    /\ replayedRequests = 0
    /\ handler = "none"
    /\ handlerAutoFallback = TRUE
    /\ mockCache = <<>>
    /\ sessionMocks = <<>>
    /\ files = <<>>
    /\ clearTasks = 0
    /\ calls = [c \in Calls |-> NoCall]
    /\ repaired = {}

\* a getMode that does not know the value 'mock'
getModeWithoutMock(env) ==
    LET mode == IF env = NoEnv THEN NoEnv ELSE ToLowerCase(env)
    IN IF mode = "record" THEN "record"
       ELSE IF mode = "replay" THEN "replay"
       ELSE "passthrough"

\* getMode(): Cypress.env('MODE')?.toLowerCase() mapped to a mode
getMode(env) ==
    LET mode == IF env = NoEnv THEN NoEnv ELSE ToLowerCase(env)
    IN IF mode = "record" THEN "record"
       ELSE IF mode = "replay" \/ mode = "mock" THEN "replay"
       ELSE "passthrough"

\* getMode() for every value of the environment variable, computed once
ModeOf == [env \in EnvModes |-> getMode(env)]

\* initNetworkRecorder(); setupRecordMode and setupReplayMode register a
\* handler that takes precedence over the ones registered before, and
\* setupReplayMode reads config.autoFallback once, outside its handler
initNetworkRecorder(env, autoFallbackEnv) ==
    LET mode == ModeOf[env]
    IN /\ (mode # "replay" => autoFallbackEnv)   \* read by setupReplayMode only
       /\ interceptedRequests' = 0
       /\ recordedRequests' = 0
       /\ replayedRequests' = 0
       /\ isRecording' = (mode = "record")
       /\ isReplaying' = (mode = "replay")
       /\ currentMode' = mode
       /\ handler' = IF mode = "passthrough" THEN handler ELSE mode
       /\ handlerAutoFallback' = IF mode = "replay" THEN autoFallbackEnv
                                 ELSE IF mode = "record" THEN TRUE
                                 ELSE handlerAutoFallback
       /\ UNCHANGED <<storeVars, calls>>

stopNetworkRecorder ==
    /\ isRecording' = FALSE
    /\ isReplaying' = FALSE
    /\ UNCHANGED <<currentMode, interceptedRequests, recordedRequests, replayedRequests,
                   handler, handlerAutoFallback, storeVars, calls>>

\* the (method, URL) pairs of the pool
PoolKeys == {<<r.method, r.url>> : r \in RequestPool}

\* Map.prototype.set, and a file written at a path
Put(f, k, v) == [x \in (DOMAIN f) \cup {k} |-> IF x = k THEN v ELSE f[x]]

\* calls enter one after the other, in the order of their numbers
MayStart(c) ==
    /\ calls[c].pc = "idle"
    /\ IF c = 1 THEN TRUE ELSE calls[c - 1].pc = "retired"

\* what the test receives for a call: status, headers, body
ReplyOf(statusCode, headers, body) ==
    [statusCode |-> statusCode, headers |-> headers, body |-> body]

\* the RecordedMock saveMock builds from its two arguments (recordedAt and
\* responseTime, the clock readings, are left out)
BuildMock(request, response) ==
    LET signature == createRequestSignature(request.method, request.url)
    IN [method |-> signature.method,
        url |-> request.url,
        pathname |-> signature.pathname,
        queryParams |-> signature.queryParams,
        status |-> response.statusCode,
        statusMessage |-> response.statusMessage,
        requestHeaders |-> request.headers,
        responseHeaders |-> response.headers,
        requestBody |-> request.body,
        response |-> response.body]

\* filePath of saveMock and loadMock
MockPathOf(method, url) == generateMockPath(createRequestSignature(method, url))

\* cacheKey of loadMock and preloadMocks
CacheKeyOf(method, url) ==
    LET signature == createRequestSignature(method, url)
    IN signature.method \o ":" \o signature.normalizedUrl

\* filePath and cacheKey of every request of the pool, computed once
PathOf == [k \in PoolKeys |-> MockPathOf(k[1], k[2])]

KeyOf == [k \in PoolKeys |-> CacheKeyOf(k[1], k[2])]

\* shouldRecordUrl of every URL of the pool
ShouldRecord == [u \in {r.url : r \in RequestPool} |-> shouldRecordUrl(u)]

\* a request argument whose url has gone through sanitizeUrl as well
RecorderRequestArgSanitizedUrl(req) ==
    [method |-> req.method, url |-> sanitizeUrl(req.url),
     headers |-> sanitizeHeaders(req.headers, defaultSanitizeOptions),
     body |-> req.body]

\* the request argument the recorder passes to saveMock
RecorderRequestArg(req) ==
    [method |-> req.method, url |-> req.url,
     headers |-> sanitizeHeaders(req.headers, defaultSanitizeOptions),
     body |-> req.body]

\* the response argument the recorder passes to saveMock
RecorderResponseArg(res) ==
    [statusCode |-> res.statusCode, statusMessage |-> res.statusMessage,
     headers |-> sanitizeHeaders(res.headers, defaultSanitizeOptions),
     body |-> res.body]

\* the response object after the req.continue callback has run on it
ResponseAfterCallback(res) ==
    [res EXCEPT !.headers = HeadersAfterSanitize(res.headers, defaultSanitizeOptions)]

\* the mock the recorder hands to saveMock, and the mock a direct call of
\* saveMock builds, for every request and response of the pools
RecorderMockOf ==
    [x \in RequestPool \X ResponsePool |->
        BuildMock(RecorderRequestArg(x[1]), RecorderResponseArg(x[2]))]

DirectMockOf == [x \in RequestPool \X ResponsePool |-> BuildMock(x[1], x[2])]

\* the filePath saveMock derives from the request the recorder hands it
RecorderPathOf ==
    [r \in RequestPool |->
        MockPathOf(RecorderRequestArg(r).method, RecorderRequestArg(r).url)]

ResponseAfterCallbackOf == [s \in ResponsePool |-> ResponseAfterCallback(s)]

\* a call made while no handler is registered goes to the network
PassthroughCall(c, r) ==
    /\ MayStart(c)
    /\ handler = "none"
    /\ calls' = [calls EXCEPT ![c] =
                    [NoCall EXCEPT !.pc = "net_wait", !.via = "none", !.kind = "passthrough",
                                   !.req = r, !.backendCalls = 1]]
    /\ UNCHANGED <<recorderVars, storeVars>>

\* req.continue() without a callback: the filtered-out branch of both handlers
SkipCall(c, r) ==
    /\ calls' = [calls EXCEPT ![c] =
                    [NoCall EXCEPT !.pc = "net_wait", !.via = handler, !.kind = "skipped",
                                   !.req = r, !.backendCalls = 1]]
    /\ UNCHANGED <<recorderVars, storeVars>>

\* a record handler that counts the call before it filters the URL
RecordInterceptCountsFirst(c, r) ==
    /\ MayStart(c)
    /\ handler = "record"
    /\ interceptedRequests' = interceptedRequests + 1
    /\ calls' = [calls EXCEPT ![c] =
                    IF ~ShouldRecord[r.url]
                    THEN [NoCall EXCEPT !.pc = "net_wait", !.via = "record",
                                        !.kind = "skipped",
                                        !.req = r, !.backendCalls = 1]
                    ELSE [NoCall EXCEPT !.pc = "rec_wait", !.via = "record",
                                        !.kind = "recorded",
                                        !.req = r, !.backendCalls = 1]]
    /\ UNCHANGED <<isRecording, isReplaying, currentMode, recordedRequests,
                   replayedRequests, handler, handlerAutoFallback, storeVars>>

\* the handler of setupRecordMode up to req.continue(callback)
RecordHandler(c, r) ==
    /\ handler = "record"
    /\ IF ~ShouldRecord[r.url]
       THEN SkipCall(c, r)
       ELSE /\ interceptedRequests' = interceptedRequests + 1
            /\ calls' = [calls EXCEPT ![c] =
                            [NoCall EXCEPT !.pc = "rec_wait", !.via = "record",
                                           !.kind = "recorded",
                                           !.req = r, !.backendCalls = 1]]
            /\ UNCHANGED <<isRecording, isReplaying, currentMode, recordedRequests,
                           replayedRequests, handler, handlerAutoFallback, storeVars>>

\* a call intercepted by the record handler
RecordIntercept(c, r) ==
    /\ MayStart(c)
    /\ RecordHandler(c, r)

\* the handler of setupReplayMode up to the call of loadMock: a cached mock
\* is wrapped, otherwise the readMock task is issued
ReplayIntercept(c, r) ==
    /\ MayStart(c)
    /\ handler = "replay"
    /\ IF ~ShouldRecord[r.url]
       THEN SkipCall(c, r)
       ELSE LET cacheKey == KeyOf[<<r.method, r.url>>]
                cached == cacheKey \in DOMAIN mockCache
            IN /\ interceptedRequests' = interceptedRequests + 1
               /\ calls' = [calls EXCEPT ![c] =
                               [NoCall EXCEPT
                                  !.pc = IF cached THEN "load_ready" ELSE "load_read",
                                  !.via = "replay",
                                  !.req = r,
                                  !.loaded = IF cached THEN mockCache[cacheKey] ELSE Null,
                                  !.expectHit = (<<r.method, r.url>> \in repaired),
                                  !.autoFallback = handlerAutoFallback]]
               /\ UNCHANGED <<isRecording, isReplaying, currentMode, recordedRequests,
                              replayedRequests, handler, handlerAutoFallback, storeVars>>

\* JSON.parse(content) of the readMock task throws on the file at filePath
ParseThrows(filePath) ==
    IF filePath \in DOMAIN files THEN files[filePath] = Corrupt ELSE FALSE

\* the readMock task: the stored mock, or null when the file does not exist
ReadMockTask(c) ==
    /\ calls[c].pc = "load_read"
    /\ LET filePath == PathOf[<<calls[c].req.method, calls[c].req.url>>]
       IN /\ ~ParseThrows(filePath)
          /\ calls' = [calls EXCEPT ![c].pc = "load_result",
                                    ![c].loaded = IF filePath \in DOMAIN files
                                                  THEN files[filePath] ELSE Null]
    /\ UNCHANGED <<recorderVars, storeVars>>

\* the readMock task throws on a corrupt file: cy.task fails, the callbacks
\* chained on it by loadMock and by the replay handler never run
ReadMockTaskFails(c) ==
    /\ calls[c].pc = "load_read"
    /\ ParseThrows(PathOf[<<calls[c].req.method, calls[c].req.url>>])
    /\ calls' = [calls EXCEPT ![c].pc = "done", ![c].error = "readMock"]
    /\ UNCHANGED <<recorderVars, storeVars>>

\* a loadMock callback that caches whatever the task returned, null included
LoadMockThenCachesAbsence(c) ==
    /\ calls[c].pc = "load_result"
    /\ mockCache' = Put(mockCache, KeyOf[<<calls[c].req.method, calls[c].req.url>>],
                        calls[c].loaded)
    /\ calls' = [calls EXCEPT ![c].pc = "load_ready"]
    /\ UNCHANGED <<recorderVars, sessionMocks, files, clearTasks, repaired>>

\* loadMock's callback on the task result: a mock found is cached
LoadMockThen(c) ==
    /\ calls[c].pc = "load_result"
    /\ mockCache' = IF calls[c].loaded # Null
                    THEN Put(mockCache, KeyOf[<<calls[c].req.method, calls[c].req.url>>],
                             calls[c].loaded)
                    ELSE mockCache
    /\ calls' = [calls EXCEPT ![c].pc = "load_ready"]
    /\ UNCHANGED <<recorderVars, sessionMocks, files, clearTasks, repaired>>

\* the body of the reply sent when no mock is found and fallback is off:
\* error, message and hint
NotFoundBody(req) ==
    [error |-> "Mock not found",
     message |-> "No mock available for " \o req.method \o " " \o req.url,
     hint |-> "Run tests with MODE=record first, or enable AUTO_FALLBACK"]

\* a reply served from a mock with the default status instead of the stored one
HitReplyDefaultStatus(mock) == ReplyOf(200, mock.responseHeaders, mock.response)

\* the reply served from a mock: req.reply({statusCode, body, headers})
HitReply(mock) == ReplyOf(mock.status, mock.responseHeaders, mock.response)

\* the not-found reply with the status of a missing resource
NotFoundReplyAs404(req) == ReplyOf(404, <<>>, NotFoundBody(req))

\* the reply sent when no mock is found and fallback is off
NotFoundReply(req) == ReplyOf(500, <<>>, NotFoundBody(req))

\* the replay handler's callback on the loaded mock
ReplayThen(c) ==
    /\ calls[c].pc = "load_ready"
    /\ LET mock == calls[c].loaded
       IN IF mock # Null
          THEN /\ replayedRequests' = replayedRequests + 1
               /\ calls' = [calls EXCEPT
                               ![c].pc = "done",
                               ![c].kind = "hit",
                               ![c].delivered = HitReply(mock)]
          ELSE IF calls[c].autoFallback
          THEN /\ calls' = [calls EXCEPT ![c].pc = "fb_wait",
                                         ![c].kind = "fallback",
                                         ![c].backendCalls = @ + 1]
               /\ UNCHANGED replayedRequests
          ELSE /\ calls' = [calls EXCEPT
                               ![c].pc = "done",
                               ![c].kind = "notfound",
                               ![c].delivered = NotFoundReply(calls[c].req)]
               /\ UNCHANGED replayedRequests
    /\ UNCHANGED <<isRecording, isReplaying, currentMode, interceptedRequests, recordedRequests,
                   handler, handlerAutoFallback, storeVars>>

\* the backend answers a call forwarded without a callback
ForwardedResponse(c, s) ==
    /\ calls[c].pc = "net_wait"
    /\ calls' = [calls EXCEPT ![c].pc = "done",
                              ![c].res = s,
                              ![c].delivered = ReplyOf(s.statusCode, s.headers, s.body)]
    /\ UNCHANGED <<recorderVars, storeVars>>

\* the req.continue callback of both handlers: saveMock is called with the
\* sanitized headers and issues the writeMock task; the response object then
\* goes on to the test
SaveOnResponse(c, s) ==
    LET after == ResponseAfterCallbackOf[s]
    IN /\ calls' = [calls EXCEPT
                       ![c].pc = "write",
                       ![c].res = s,
                       ![c].mock = RecorderMockOf[<<calls[c].req, s>>],
                       ![c].filePath = RecorderPathOf[calls[c].req],
                       ![c].delivered = ReplyOf(after.statusCode, after.headers, after.body)]
       /\ UNCHANGED <<recorderVars, storeVars>>

\* a record callback that counts the call before its save has run
RecordResponseCountsEarly(c, s) ==
    LET after == ResponseAfterCallbackOf[s]
    IN /\ calls[c].pc = "rec_wait"
       /\ recordedRequests' = recordedRequests + 1
       /\ calls' = [calls EXCEPT
                       ![c].pc = "write",
                       ![c].res = s,
                       ![c].mock = RecorderMockOf[<<calls[c].req, s>>],
                       ![c].filePath = RecorderPathOf[calls[c].req],
                       ![c].delivered = ReplyOf(after.statusCode, after.headers, after.body)]
       /\ UNCHANGED <<isRecording, isReplaying, currentMode, interceptedRequests, replayedRequests,
                      handler, handlerAutoFallback, storeVars>>

\* the req.continue callback of the record handler
RecordResponse(c, s) ==
    /\ calls[c].pc = "rec_wait"
    /\ SaveOnResponse(c, s)

\* a fallback callback that hands the response on without saving it
FallbackResponseNoSave(c, s) ==
    /\ calls[c].pc = "fb_wait"
    /\ calls' = [calls EXCEPT ![c].pc = "done",
                              ![c].res = s,
                              ![c].delivered = ReplyOf(s.statusCode, s.headers, s.body)]
    /\ UNCHANGED <<recorderVars, storeVars>>

\* the req.continue callback of the replay handler's fallback branch
FallbackResponse(c, s) ==
    /\ calls[c].pc = "fb_wait"
    /\ SaveOnResponse(c, s)

\* an aborted call whose callback still runs, on an empty response
AbortCallRunsCallback(c) ==
    /\ calls[c].pc \in {"rec_wait", "fb_wait"}
    /\ calls' = [calls EXCEPT
                    ![c].pc = "write",
                    ![c].kind = "aborted",
                    ![c].mock = BuildMock(RecorderRequestArg(calls[c].req),
                                          RecorderResponseArg(NoResponse)),
                    ![c].filePath = RecorderPathOf[calls[c].req]]
    /\ UNCHANGED <<recorderVars, storeVars>>

\* the call is aborted while the handler waits for the backend: no response
\* arrives, so the callback given to req.continue is never called
AbortCall(c) ==
    /\ calls[c].pc \in {"rec_wait", "fb_wait"}
    /\ calls' = [calls EXCEPT ![c].pc = "done", ![c].kind = "aborted"]
    /\ UNCHANGED <<recorderVars, storeVars>>

\* saveMock called by test code with a request and a response of its own
DirectSave(c, r, s) ==
    /\ MayStart(c)
    /\ calls' = [calls EXCEPT ![c] =
                    [NoCall EXCEPT !.pc = "write", !.via = "direct", !.kind = "direct",
                                   !.req = r, !.res = s, !.mock = DirectMockOf[<<r, s>>],
                                   !.filePath = PathOf[<<r.method, r.url>>]]]
    /\ UNCHANGED <<recorderVars, storeVars>>

\* the writeMock task writes the file
WriteMockTask(c) ==
    /\ calls[c].pc = "write"
    /\ files' = Put(files, calls[c].filePath, calls[c].mock)
    /\ calls' = [calls EXCEPT ![c].pc = "written", ![c].written = TRUE]
    /\ UNCHANGED <<recorderVars, mockCache, sessionMocks, clearTasks, repaired>>

\* a writeMock task whose failure is swallowed: the chain goes on as if the
\* file had been written
WriteMockTaskFailsSilently(c) ==
    /\ calls[c].pc = "write"
    /\ calls' = [calls EXCEPT ![c].pc = "written"]
    /\ UNCHANGED <<recorderVars, storeVars>>

\* the writeMock task throws: cy.task fails with the error and the command
\* chain of saveMock stops there
WriteMockTaskFails(c) ==
    /\ calls[c].pc = "write"
    /\ calls' = [calls EXCEPT ![c].pc = "done", ![c].error = "writeMock"]
    /\ UNCHANGED <<recorderVars, storeVars>>

\* a saveMock callback that also puts the mock into the cache
SaveMockThenCaches(c) ==
    /\ calls[c].pc = "written"
    /\ sessionMocks' = Append(sessionMocks, calls[c].filePath)
    /\ mockCache' = Put(mockCache, KeyOf[<<calls[c].req.method, calls[c].req.url>>],
                        calls[c].mock)
    /\ calls' = [calls EXCEPT ![c].pc = IF calls[c].kind = "recorded" THEN "pushed" ELSE "done"]
    /\ repaired' = IF calls[c].kind = "fallback" /\ calls[c].filePath \in DOMAIN files
                   THEN repaired \cup {<<calls[c].req.method, calls[c].req.url>>}
                   ELSE repaired
    /\ UNCHANGED <<recorderVars, files, clearTasks>>

\* saveMock's callback after the task: the path joins the session list
SaveMockThen(c) ==
    /\ calls[c].pc = "written"
    /\ sessionMocks' = Append(sessionMocks, calls[c].filePath)
    /\ calls' = [calls EXCEPT ![c].pc = IF calls[c].kind = "recorded" THEN "pushed" ELSE "done"]
    /\ repaired' = IF calls[c].kind = "fallback" /\ calls[c].filePath \in DOMAIN files
                   THEN repaired \cup {<<calls[c].req.method, calls[c].req.url>>}
                   ELSE repaired
    /\ UNCHANGED <<recorderVars, mockCache, files, clearTasks>>

\* a count written back from a value read before the other calls counted
RecordedAfterSaveStale(n) == 1

\* value of recordedRequests after the record handler's callback on saveMock
RecordedAfterSave(n) == n + 1

\* the record handler's callback on saveMock's result
RecordThen(c) ==
    /\ calls[c].pc = "pushed"
    /\ recordedRequests' = RecordedAfterSave(recordedRequests)
    /\ calls' = [calls EXCEPT ![c].pc = "done", ![c].counted = TRUE]
    /\ UNCHANGED <<isRecording, isReplaying, currentMode, interceptedRequests, replayedRequests,
                   handler, handlerAutoFallback, storeVars>>

\* a finished call's request and response objects are dropped
Retire(c) ==
    /\ calls[c].pc = "done"
    /\ calls' = [calls EXCEPT ![c] = [NoCall EXCEPT !.pc = "retired"]]
    /\ UNCHANGED <<recorderVars, storeVars>>

\* number of clearMocks tasks that may be pending at once
MaxClearTasks == 1

\* clearAllMocks(): cache and session list are emptied at once, the
\* directory by the clearMocks task
clearAllMocks ==
    /\ clearTasks < MaxClearTasks
    /\ mockCache' = <<>>
    /\ sessionMocks' = <<>>
    /\ clearTasks' = clearTasks + 1
    /\ repaired' = {}
    /\ calls' = [c \in Calls |-> [calls[c] EXCEPT !.expectHit = FALSE]]
    /\ UNCHANGED <<recorderVars, files>>

\* the clearMocks task removes and recreates the mock directory
ClearMocksTask ==
    /\ clearTasks > 0
    /\ files' = <<>>
    /\ clearTasks' = clearTasks - 1
    /\ repaired' = {}
    /\ calls' = [c \in Calls |-> [calls[c] EXCEPT !.expectHit = FALSE]]
    /\ UNCHANGED <<recorderVars, mockCache, sessionMocks>>

clearCache ==
    /\ mockCache' = <<>>
    /\ UNCHANGED <<recorderVars, sessionMocks, files, clearTasks, calls, repaired>>

Next ==
    \/ \E env \in EnvModes, af \in BOOLEAN : initNetworkRecorder(env, af)
    \/ stopNetworkRecorder
    \/ \E c \in Calls, r \in RequestPool : PassthroughCall(c, r)
    \/ \E c \in Calls, r \in RequestPool : RecordIntercept(c, r)
    \/ \E c \in Calls, r \in RequestPool : ReplayIntercept(c, r)
    \/ \E c \in Calls : ReadMockTask(c)
    \/ \E c \in Calls : LoadMockThen(c)
    \/ \E c \in Calls : ReplayThen(c)
    \/ \E c \in Calls, s \in ResponsePool : ForwardedResponse(c, s)
    \/ \E c \in Calls, s \in ResponsePool : RecordResponse(c, s)
    \/ \E c \in Calls, s \in ResponsePool : FallbackResponse(c, s)
    \/ \E c \in Calls : AbortCall(c)
    \/ \E c \in Calls : WriteMockTask(c)
    \/ \E c \in Calls : WriteMockTaskFails(c)
    \/ \E c \in Calls : SaveMockThen(c)
    \/ \E c \in Calls : RecordThen(c)
    \/ \E c \in Calls : Retire(c)
    \/ clearAllMocks
    \/ ClearMocksTask
    \/ clearCache

Spec == Init /\ [][Next]_vars

(***************************************************************************)
(* The store used by test code: saveMock, loadMock, clearAllMocks,         *)
(* clearCache, preloadMocks and getSessionMocks called one after the       *)
(* other, each awaited before the next is called.                          *)
(***************************************************************************)
\* length the session list may reach
MaxSession == 2

\* the requests test code saves and loads
StorePool == {r \in RequestPool : ShouldRecord[r.url]}

\* what loadMock returns when it runs to completion from the current state:
\* the cached mock, else the stored file, else null
LoadResult(method, url) ==
    LET cacheKey == KeyOf[<<method, url>>]
        filePath == PathOf[<<method, url>>]
    IN IF cacheKey \in DOMAIN mockCache THEN mockCache[cacheKey]
       ELSE IF filePath \in DOMAIN files THEN files[filePath]
       ELSE Null

\* test code starts an operation only when the one before has been awaited
StoreMayStart(c) == MayStart(c) /\ clearTasks = 0

StoreSave(c, r, s) ==
    /\ StoreMayStart(c)
    /\ r \in StorePool
    /\ Len(sessionMocks) < MaxSession
    /\ DirectSave(c, r, s)

\* a loadMock that goes to the readMock task without looking at the cache
StoreLoadAlwaysReads(c, r) ==
    /\ StoreMayStart(c)
    /\ r \in StorePool
    /\ calls' = [calls EXCEPT ![c] =
                    [NoCall EXCEPT !.pc = "load_read", !.via = "direct",
                                   !.kind = "load", !.req = r]]
    /\ UNCHANGED <<recorderVars, storeVars>>

\* loadMock(createRequestSignature(method, url)) called by test code, up to
\* the cache lookup
StoreLoad(c, r) ==
    LET cacheKey == KeyOf[<<r.method, r.url>>]
        cached == cacheKey \in DOMAIN mockCache
    IN /\ StoreMayStart(c)
       /\ r \in StorePool
       /\ calls' = [calls EXCEPT ![c] =
                       [NoCall EXCEPT
                          !.pc = IF cached THEN "load_ready" ELSE "load_read",
                          !.via = "direct",
                          !.kind = "load",
                          !.req = r,
                          !.loaded = IF cached THEN mockCache[cacheKey] ELSE Null]]
       /\ UNCHANGED <<recorderVars, storeVars>>

\* the value of loadMock's chain reaches the test code
LoadReturn(c) ==
    /\ calls[c].pc = "load_ready"
    /\ calls[c].kind = "load"
    /\ calls' = [calls EXCEPT ![c].pc = "done", ![c].delivered = calls[c].loaded]
    /\ UNCHANGED <<recorderVars, storeVars>>

\* a clearAllMocks that leaves the cache as it is
StoreClearAllKeepsCache(c) ==
    /\ StoreMayStart(c)
    /\ sessionMocks' = <<>>
    /\ clearTasks' = clearTasks + 1
    /\ repaired' = {}
    /\ calls' = [calls EXCEPT ![c] =
                    [NoCall EXCEPT !.pc = "clear_wait", !.via = "direct", !.kind = "clear",
                                   !.written = (files # <<>>)]]
    /\ UNCHANGED <<recorderVars, mockCache, files>>

\* clearAllMocks() called by test code; written notes whether files existed
StoreClearAll(c) ==
    /\ StoreMayStart(c)
    /\ mockCache' = <<>>
    /\ sessionMocks' = <<>>
    /\ clearTasks' = clearTasks + 1
    /\ repaired' = {}
    /\ calls' = [calls EXCEPT ![c] =
                    [NoCall EXCEPT !.pc = "clear_wait", !.via = "direct", !.kind = "clear",
                                   !.written = (files # <<>>)]]
    /\ UNCHANGED <<recorderVars, files>>

\* the clearMocks task of that call
StoreClearTask(c) ==
    /\ calls[c].pc = "clear_wait"
    /\ clearTasks > 0
    /\ files' = <<>>
    /\ clearTasks' = clearTasks - 1
    /\ repaired' = {}
    /\ calls' = [calls EXCEPT ![c].pc = "done"]
    /\ UNCHANGED <<recorderVars, mockCache, sessionMocks>>

\* a clearCache that empties the session list as well
StoreClearCacheDropsSession(c) ==
    /\ StoreMayStart(c)
    /\ mockCache # <<>>
    /\ mockCache' = <<>>
    /\ sessionMocks' = <<>>
    /\ calls' = [calls EXCEPT ![c] =
                    [NoCall EXCEPT !.pc = "done", !.via = "direct", !.kind = "clearcache"]]
    /\ UNCHANGED <<recorderVars, files, clearTasks, repaired>>

\* clearCache() called by test code on a cache that holds something
StoreClearCache(c) ==
    /\ StoreMayStart(c)
    /\ mockCache # <<>>
    /\ mockCache' = <<>>
    /\ calls' = [calls EXCEPT ![c] =
                    [NoCall EXCEPT !.pc = "done", !.via = "direct", !.kind = "clearcache"]]
    /\ UNCHANGED <<recorderVars, sessionMocks, files, clearTasks, repaired>>

\* the cache after preloadMocks has read every listed file: each mock read
\* is set under the key of its own method and url
PreloadedCache ==
    LET keyOfFile == [path \in DOMAIN files |->
                        CacheKeyOf(files[path].method, files[path].url)]
        keys == {keyOfFile[path] : path \in DOMAIN files}
    IN [k \in (DOMAIN mockCache) \cup keys |->
           IF k \in keys THEN files[CHOOSE path \in DOMAIN files : keyOfFile[path] = k]
           ELSE mockCache[k]]

\* preloadMocks() called by test code and awaited
StorePreload(c) ==
    /\ StoreMayStart(c)
    /\ files # <<>>
    /\ mockCache' = PreloadedCache
    /\ calls' = [calls EXCEPT ![c] =
                    [NoCall EXCEPT !.pc = "done", !.via = "direct", !.kind = "preload"]]
    /\ UNCHANGED <<recorderVars, sessionMocks, files, clearTasks, repaired>>

\* the store's session list after test code has pushed extra onto the array
\* getSessionMocks() returned: the array is a copy
SessionMocksAfterPush(list, extra) == list

\* getSessionMocks() called by test code, which then pushes onto the result
StoreSnapshot(c) ==
    /\ StoreMayStart(c)
    /\ sessionMocks # <<>>
    /\ sessionMocks' = SessionMocksAfterPush(sessionMocks, "mine.json")
    /\ calls' = [calls EXCEPT ![c] =
                    [NoCall EXCEPT !.pc = "done", !.via = "direct", !.kind = "snapshot"]]
    /\ UNCHANGED <<recorderVars, mockCache, files, clearTasks, repaired>>

\* the next batch of operations
Recycle ==
    /\ \A c \in Calls : calls[c].pc = "retired"
    /\ calls' = [c \in Calls |-> NoCall]
    /\ UNCHANGED <<recorderVars, storeVars>>

NextStore ==
    \/ \E c \in Calls, r \in RequestPool, s \in ResponsePool : StoreSave(c, r, s)
    \/ \E c \in Calls : WriteMockTask(c)
    \/ \E c \in Calls : WriteMockTaskFails(c)
    \/ \E c \in Calls : SaveMockThen(c)
    \/ \E c \in Calls, r \in RequestPool : StoreLoad(c, r)
    \/ \E c \in Calls : ReadMockTask(c)
    \/ \E c \in Calls : LoadMockThen(c)
    \/ \E c \in Calls : LoadReturn(c)
    \/ \E c \in Calls : StoreClearAll(c)
    \/ \E c \in Calls : StoreClearTask(c)
    \/ \E c \in Calls : StoreClearCache(c)
    \/ \E c \in Calls : StorePreload(c)
    \/ \E c \in Calls : StoreSnapshot(c)
    \/ \E c \in Calls : Retire(c)
    \/ Recycle

SpecStore == Init /\ [][NextStore]_vars

\* the recorder together with test code that calls saveMock itself
NextSave ==
    \/ Next
    \/ \E c \in Calls, r \in RequestPool, s \in ResponsePool : DirectSave(c, r, s)

SpecSave == Init /\ [][NextSave]_vars

(***************************************************************************)
(* Replay and preload against a mock directory the run finds on disk:      *)
(* for every request, the mock an earlier run recorded, a file that is     *)
(* not valid JSON, or no file.                                             *)
(***************************************************************************)
\* the paths of the requests that pass the filter
DiskPaths == {PathOf[<<r.method, r.url>>] : r \in StorePool}

\* requests an earlier run recorded that the present run does not issue: a
\* repeated query parameter, and a query on a URL that begins with http
EarlierPool ==
    { [method |-> "GET", url |-> "/posts?token=zzz&token=abc123",
       headers |-> [accept |-> "json"], body |-> Body("")],
      [method |-> "DELETE", url |-> "http://host/posts/1?force=1",
       headers |-> [accept |-> "json"], body |-> Body("")] }

\* the responses an earlier run recorded
EarlierResponses == {t \in ResponsePool : t.statusCode = 200}

\* the filePath saveMock derived for the requests of the earlier run, and
\* the mocks it wrote
EarlierPathOf ==
    [q \in EarlierPool |->
        MockPathOf(RecorderRequestArg(q).method, RecorderRequestArg(q).url)]

EarlierMockOf ==
    [x \in EarlierPool \X EarlierResponses |->
        BuildMock(RecorderRequestArg(x[1]), RecorderResponseArg(x[2]))]

\* what an earlier run may have left at a path: a recorded mock of a
\* request stored there, or a file JSON.parse rejects
DiskFilesAt(path) ==
    {RecorderMockOf[<<r, s>>] :
        r \in {q \in StorePool : PathOf[<<q.method, q.url>>] = path},
        s \in EarlierResponses}
    \cup {EarlierMockOf[<<r, s>>] :
            r \in {q \in EarlierPool : EarlierPathOf[q] = path},
            s \in EarlierResponses}
    \cup {Corrupt}

\* the contents the mock directory may have when the run starts
DiskContents ==
    UNION { {f \in [S -> UNION {DiskFilesAt(path) : path \in S}] :
                \A path \in S : f[path] \in DiskFilesAt(path)} :
            S \in SUBSET DiskPaths }

InitDisk ==
    /\ isRecording = FALSE
    /\ isReplaying = FALSE
    /\ currentMode = "passthrough"
    /\ interceptedRequests = 0
    /\ recordedRequests = 0
    /\ replayedRequests = 0
    /\ handler = "none"
    /\ handlerAutoFallback = TRUE
    /\ mockCache = <<>>
    /\ sessionMocks = <<>>
    /\ files \in DiskContents
    /\ clearTasks = 0
    /\ calls = [c \in Calls |-> NoCall]
    /\ repaired = {}

\* preloadMocks() up to the listMocks task
PreloadStart(c) ==
    /\ MayStart(c)
    /\ calls' = [calls EXCEPT ![c] =
                    [NoCall EXCEPT !.pc = "list_wait", !.via = "direct", !.kind = "preload"]]
    /\ UNCHANGED <<recorderVars, storeVars>>

\* the listMocks task walks the directory; preloadMocks then issues one
\* readMock task per listed file
ListMocksTask(c) ==
    /\ calls[c].pc = "list_wait"
    /\ calls' = [calls EXCEPT ![c].pc = "preload_read",
                              ![c].listing = SortStrings(SetToSeq(DOMAIN files))]
    /\ UNCHANGED <<recorderVars, storeVars>>

\* the next readMock task of preloadMocks and its callback: a mock read is
\* set under the key of its own method and url
PreloadReadTask(c) ==
    /\ calls[c].pc = "preload_read"
    /\ calls[c].listing # <<>>
    /\ LET filePath == Head(calls[c].listing)
           mock == IF filePath \in DOMAIN files THEN files[filePath] ELSE Null
       IN /\ ~ParseThrows(filePath)
          /\ mockCache' = IF mock # Null
                          THEN Put(mockCache, CacheKeyOf(mock.method, mock.url), mock)
                          ELSE mockCache
    /\ calls' = [calls EXCEPT ![c].listing = Tail(@)]
    /\ UNCHANGED <<recorderVars, sessionMocks, files, clearTasks, repaired>>

\* a readMock task of preloadMocks throws on a corrupt file: cy.task fails
\* and the commands queued after it, the remaining reads and the final
\* callback, never run
PreloadReadTaskFails(c) ==
    /\ calls[c].pc = "preload_read"
    /\ calls[c].listing # <<>>
    /\ ParseThrows(Head(calls[c].listing))
    /\ calls' = [calls EXCEPT ![c].pc = "done", ![c].error = "readMock"]
    /\ UNCHANGED <<recorderVars, storeVars>>

\* the final callback of preloadMocks: return mockCache.size
PreloadDone(c) ==
    /\ calls[c].pc = "preload_read"
    /\ calls[c].listing = <<>>
    /\ calls' = [calls EXCEPT ![c].pc = "done",
                              ![c].delivered = [count |-> Cardinality(DOMAIN mockCache)]]
    /\ UNCHANGED <<recorderVars, storeVars>>

\* the values of Cypress.env('MODE') that select replay
ReplayEnvModes == {env \in EnvModes : ModeOf[env] = "replay"}

NextDisk ==
    \/ \E env \in ReplayEnvModes, af \in BOOLEAN : initNetworkRecorder(env, af)
    \/ \E c \in Calls, r \in RequestPool : ReplayIntercept(c, r)
    \/ \E c \in Calls : ReadMockTask(c)
    \/ \E c \in Calls : ReadMockTaskFails(c)
    \/ \E c \in Calls : LoadMockThen(c)
    \/ \E c \in Calls : ReplayThen(c)
    \/ \E c \in Calls, s \in ResponsePool : ForwardedResponse(c, s)
    \/ \E c \in Calls, s \in ResponsePool : FallbackResponse(c, s)
    \/ \E c \in Calls : AbortCall(c)
    \/ \E c \in Calls : WriteMockTask(c)
    \/ \E c \in Calls : WriteMockTaskFails(c)
    \/ \E c \in Calls : SaveMockThen(c)
    \/ \E c \in Calls : Retire(c)
    \/ \E c \in Calls : PreloadStart(c)
    \/ \E c \in Calls : ListMocksTask(c)
    \/ \E c \in Calls : PreloadReadTask(c)
    \/ \E c \in Calls : PreloadReadTaskFails(c)
    \/ \E c \in Calls : PreloadDone(c)

SpecDisk == InitDisk /\ [][NextDisk]_vars

(***************************************************************************)
(* matcher.ts called on its own: normalizeUrl, createRequestSignature      *)
(* followed by generateMockPath, and shouldRecordUrl, applied to the URLs  *)
(* of a pool.                                                              *)
(***************************************************************************)
\* the part of a URL before its query
PathPool == {"/posts", "http://host/posts", "/api/users", "https://host/v1/users"}

\* query strings: reordered parameters, a repeated name, a space written
\* as a space and as +, values holding / and =
QueryPool ==
    {"a=1&b=2", "b=2&a=1", "a=1&a=2", "a=2&a=1", "userId=1",
     "q=a b&x=1", "x=1&q=a+b", "k=x/y&j=b=c"}

UrlPool ==
    {path \o "?" \o query : path \in PathPool, query \in QueryPool}
    \cup PathPool
    \cup {"not a url", "", "/other", "/posts/1", "/users.json", "/app.js?v=1",
          "/api/logo.png", "/API/users", "/static/app.js", "/STATIC/app.JS",
          "/assets/x", "/_next/y", "/__cypress/z",
          "http://host/api/x.css", "https://host/graphql/q", "http://host/other",
          "ftp://host/f?b=2&a=1", "ftp://", "mailto:a@b",
          "/api/users/a_b", "/api/users/a/b"}

MethodPool == {"GET", "delete"}

\* the functions of matcher.ts on the pool, computed once
NormalizedOf == [u \in UrlPool |-> normalizeUrl(u)]

SignatureOf == [k \in MethodPool \X UrlPool |-> createRequestSignature(k[1], k[2])]

MockPathOfSignature == [k \in MethodPool \X UrlPool |-> generateMockPath(SignatureOf[k])]

ShouldRecordOf == [u \in UrlPool |-> shouldRecordUrl(u)]

\* normalizeUrl(u) called and its result kept
CallNormalizeUrl(c, u) ==
    /\ MayStart(c)
    /\ calls' = [calls EXCEPT ![c] =
                    [NoCall EXCEPT !.pc = "done", !.via = "direct", !.kind = "normalizeUrl",
                                   !.req = [NoRequest EXCEPT !.url = u],
                                   !.delivered = [value |-> NormalizedOf[u]]]]
    /\ UNCHANGED <<recorderVars, storeVars>>

\* createRequestSignature(method, u) called, as saveMock and the replay
\* handler call it
CallCreateRequestSignature(c, method, u) ==
    /\ MayStart(c)
    /\ calls' = [calls EXCEPT ![c] =
                    [NoCall EXCEPT !.pc = "signed", !.via = "direct",
                                   !.kind = "createRequestSignature",
                                   !.req = [NoRequest EXCEPT !.method = method, !.url = u],
                                   !.delivered = SignatureOf[<<method, u>>]]]
    /\ UNCHANGED <<recorderVars, storeVars>>

\* generateMockPath(signature) called on the signature just built
CallGenerateMockPath(c) ==
    /\ calls[c].pc = "signed"
    /\ calls' = [calls EXCEPT
                    ![c].pc = "done",
                    ![c].filePath =
                        MockPathOfSignature[<<calls[c].req.method, calls[c].req.url>>]]
    /\ UNCHANGED <<recorderVars, storeVars>>

\* shouldRecordUrl(u) called, as both handlers call it
CallShouldRecordUrl(c, u) ==
    /\ MayStart(c)
    /\ calls' = [calls EXCEPT ![c] =
                    [NoCall EXCEPT !.pc = "done", !.via = "direct", !.kind = "shouldRecordUrl",
                                   !.req = [NoRequest EXCEPT !.url = u],
                                   !.delivered = [value |-> ShouldRecordOf[u]]]]
    /\ UNCHANGED <<recorderVars, storeVars>>

NextUrl ==
    \/ \E c \in Calls, u \in UrlPool : CallNormalizeUrl(c, u)
    \/ \E c \in Calls, method \in MethodPool, u \in UrlPool :
          CallCreateRequestSignature(c, method, u)
    \/ \E c \in Calls : CallGenerateMockPath(c)
    \/ \E c \in Calls, u \in UrlPool : CallShouldRecordUrl(c, u)
    \/ \E c \in Calls : Retire(c)

SpecUrl == Init /\ [][NextUrl]_vars

(***************************************************************************)
(* Record mode with the calls in flight at the same time: interceptions,   *)
(* backend responses, writeMock tasks and the callbacks on them run in     *)
(* any order across the calls.  Each handler and each callback runs to     *)
(* completion, as the browser's event loop runs them.                      *)
(***************************************************************************)
\* initNetworkRecorder() in record mode, once
StartRecording ==
    /\ handler = "none"
    /\ initNetworkRecorder("record", TRUE)

\* the record handler intercepts a call while others are in flight
ConcurrentRecordIntercept(c, r) ==
    /\ calls[c].pc = "idle"
    /\ RecordHandler(c, r)

NextConcurrent ==
    \/ StartRecording
    \/ \E c \in Calls, r \in RequestPool : ConcurrentRecordIntercept(c, r)
    \/ \E c \in Calls, s \in ResponsePool : ForwardedResponse(c, s)
    \/ \E c \in Calls, s \in ResponsePool : RecordResponse(c, s)
    \/ \E c \in Calls : WriteMockTask(c)
    \/ \E c \in Calls : WriteMockTaskFails(c)
    \/ \E c \in Calls : SaveMockThen(c)
    \/ \E c \in Calls : RecordThen(c)

SpecConcurrent == Init /\ [][NextConcurrent]_vars

(***************************************************************************)
(* The store called by test code that does not wait: saveMock, loadMock,   *)
(* preloadMocks, clearAllMocks and clearCache are called while the tasks   *)
(* and callbacks of earlier calls are still queued.  The synchronous part  *)
(* of each function runs when it is called; the tasks and callbacks run    *)
(* afterwards, here in any order across the calls.                         *)
(***************************************************************************)
\* a call may be made while the calls before it are still in flight
QueueMayStart(c) == calls[c].pc = "idle"

\* saveMock(request, response) called: the mock is built and the writeMock
\* task is queued
QueuedSave(c, r, s) ==
    /\ QueueMayStart(c)
    /\ r \in StorePool
    /\ Len(sessionMocks) < MaxSession
    /\ calls' = [calls EXCEPT ![c] =
                    [NoCall EXCEPT !.pc = "write", !.via = "direct", !.kind = "direct",
                                   !.req = r, !.res = s, !.mock = DirectMockOf[<<r, s>>],
                                   !.filePath = PathOf[<<r.method, r.url>>]]]
    /\ UNCHANGED <<recorderVars, storeVars>>

\* loadMock(signature) called: the cache is looked up at once, the readMock
\* task is queued on a miss
QueuedLoad(c, r) ==
    LET cacheKey == KeyOf[<<r.method, r.url>>]
        cached == cacheKey \in DOMAIN mockCache
    IN /\ QueueMayStart(c)
       /\ r \in StorePool
       /\ calls' = [calls EXCEPT ![c] =
                       [NoCall EXCEPT
                          !.pc = IF cached THEN "load_ready" ELSE "load_read",
                          !.via = "direct",
                          !.kind = "load",
                          !.req = r,
                          !.loaded = IF cached THEN mockCache[cacheKey] ELSE Null]]
       /\ UNCHANGED <<recorderVars, storeVars>>

\* preloadMocks() called: the listMocks task is queued
QueuedPreload(c) ==
    /\ QueueMayStart(c)
    /\ calls' = [calls EXCEPT ![c] =
                    [NoCall EXCEPT !.pc = "list_wait", !.via = "direct", !.kind = "preload"]]
    /\ UNCHANGED <<recorderVars, storeVars>>

NextQueue ==
    \/ \E c \in Calls, r \in RequestPool, s \in ResponsePool : QueuedSave(c, r, s)
    \/ \E c \in Calls, r \in RequestPool : QueuedLoad(c, r)
    \/ \E c \in Calls : QueuedPreload(c)
    \/ clearAllMocks
    \/ clearCache
    \/ ClearMocksTask
    \/ \E c \in Calls : WriteMockTask(c)
    \/ \E c \in Calls : WriteMockTaskFails(c)
    \/ \E c \in Calls : SaveMockThen(c)
    \/ \E c \in Calls : ReadMockTask(c)
    \/ \E c \in Calls : LoadMockThen(c)
    \/ \E c \in Calls : LoadReturn(c)
    \/ \E c \in Calls : ListMocksTask(c)
    \/ \E c \in Calls : PreloadReadTask(c)
    \/ \E c \in Calls : PreloadDone(c)
    \/ \E c \in Calls : Retire(c)

SpecQueue == Init /\ [][NextQueue]_vars

(***************************************************************************)
(* The sanitizer called on its own: sanitizeHeaders applied to header      *)
(* objects under every combination of its options, and                     *)
(* applyDynamicPlaceholders followed by resolveDynamicPlaceholders.        *)
(***************************************************************************)
\* header names as a client or a server may write them, and their values
HeaderValueOf ==
    [name \in {"Authorization", "X-API-Key", "Cookie", "SET-COOKIE", "accept"} |->
        CASE name = "Authorization" -> "Bearer abc123"
          [] name = "X-API-Key" -> "k1"
          [] name = "Cookie" -> "sid=1"
          [] name = "SET-COOKIE" -> "sid=9"
          [] OTHER -> "json"]

\* the header objects passed to sanitizeHeaders
HeaderMapPool ==
    {[name \in S |-> HeaderValueOf[name]] : S \in SUBSET DOMAIN HeaderValueOf}

\* the SanitizeOptions objects passed to sanitizeHeaders: every field is
\* optional, and the options object replaces the defaults as a whole
OptionNames == {"sanitizeHeaders", "sanitizeCookies", "maskAuthValues"}

OptionsPool == UNION {[S -> BOOLEAN] : S \in SUBSET OptionNames}

\* sanitizeHeaders on the pools, computed once
SanitizedOf == [x \in HeaderMapPool \X OptionsPool |-> sanitizeHeaders(x[1], x[2])]

\* sanitizeHeaders(headers, options) called and its result kept
CallSanitizeHeaders(c, headers, options) ==
    /\ MayStart(c)
    /\ calls' = [calls EXCEPT ![c] =
                    [NoCall EXCEPT !.pc = "done", !.via = "direct", !.kind = "sanitizeHeaders",
                                   !.req = [NoRequest EXCEPT !.headers = headers],
                                   !.delivered = [value |-> SanitizedOf[<<headers, options>>],
                                                  options |-> options]]]
    /\ UNCHANGED <<recorderVars, storeVars>>

\* the tracked (field, value) pairs passed to applyDynamicPlaceholders
PatternsPool ==
    { <<>>,
      <<[field |-> "id", value |-> "42"]>>,
      <<[field |-> "id", value |-> "42"], [field |-> "ts", value |-> "t1"]>> }

\* the data passed to applyDynamicPlaceholders: strings that hold a tracked
\* value never, once or twice, objects with tracked fields, an array
PlaceholderDataPool ==
    { Str("plain"), Str("42"), Str("id 42"), Str("42-42"),
      Obj([id |-> Str("42"), name |-> Str("bob")]),
      Obj([id |-> Str("7"), ts |-> Str("t1"), note |-> Str("at t1")]),
      Arr(<<Str("42"), Other(42)>>) }

\* the value map {field: value} of a list of patterns
RECURSIVE ValueMapOf(_)
ValueMapOf(patterns) ==
    IF Len(patterns) = 0 THEN <<>>
    ELSE <<<<patterns[1].field, patterns[1].value>>>> \o ValueMapOf(Tail(patterns))

\* data holding the sentinel, and value maps with a default key
SentinelDataPool ==
    { Str(dynamicPlaceholder),
      Obj([id |-> Str(dynamicPlaceholder), name |-> Str("bob")]) }

DefaultValuesPool ==
    { << <<"_default", "d0">> >>,
      << <<"name", "n0">>, <<"_default", "d0">> >> }

\* both functions on the pools, computed once
AppliedOf ==
    [x \in PlaceholderDataPool \X PatternsPool |-> applyDynamicPlaceholders(x[1], x[2])]

ResolvedOf ==
    [x \in PlaceholderDataPool \X PatternsPool |->
        resolveDynamicPlaceholders(AppliedOf[x], ValueMapOf(x[2]))]

ResolvedDefaultOf ==
    [x \in SentinelDataPool \X DefaultValuesPool |->
        resolveDynamicPlaceholders(x[1], x[2])]

\* applyDynamicPlaceholders(data, patterns) called and its result kept
CallApplyDynamicPlaceholders(c, data, patterns) ==
    /\ MayStart(c)
    /\ calls' = [calls EXCEPT ![c] =
                    [NoCall EXCEPT !.pc = "applied", !.via = "direct",
                                   !.kind = "applyDynamicPlaceholders",
                                   !.req = [NoRequest EXCEPT !.body = data],
                                   !.delivered = [value |-> AppliedOf[<<data, patterns>>],
                                                  patterns |-> patterns]]]
    /\ UNCHANGED <<recorderVars, storeVars>>

\* resolveDynamicPlaceholders called on that result with the value map of
\* the same patterns
CallResolveDynamicPlaceholders(c) ==
    /\ calls[c].pc = "applied"
    /\ calls' = [calls EXCEPT
                    ![c].pc = "done",
                    ![c].kind = "resolveDynamicPlaceholders",
                    ![c].delivered =
                        [value |-> ResolvedOf[<<calls[c].req.body, calls[c].delivered.patterns>>],
                         patterns |-> calls[c].delivered.patterns]]
    /\ UNCHANGED <<recorderVars, storeVars>>

\* resolveDynamicPlaceholders called on data that holds the sentinel, with
\* a value map that has the default key
CallResolveWithDefault(c, data, values) ==
    /\ MayStart(c)
    /\ calls' = [calls EXCEPT ![c] =
                    [NoCall EXCEPT !.pc = "done", !.via = "direct",
                                   !.kind = "resolveWithDefault",
                                   !.req = [NoRequest EXCEPT !.body = data],
                                   !.delivered = [value |-> ResolvedDefaultOf[<<data, values>>],
                                                  values |-> values]]]
    /\ UNCHANGED <<recorderVars, storeVars>>

NextSanitizer ==
    \/ \E c \in Calls, headers \in HeaderMapPool, options \in OptionsPool :
          CallSanitizeHeaders(c, headers, options)
    \/ \E c \in Calls, data \in PlaceholderDataPool, patterns \in PatternsPool :
          CallApplyDynamicPlaceholders(c, data, patterns)
    \/ \E c \in Calls : CallResolveDynamicPlaceholders(c)
    \/ \E c \in Calls, data \in SentinelDataPool, values \in DefaultValuesPool :
          CallResolveWithDefault(c, data, values)
    \/ \E c \in Calls : Retire(c)

SpecSanitizer == Init /\ [][NextSanitizer]_vars

(***************************************************************************)
(* Properties.                                                             *)
(***************************************************************************)
\* every header of h whose name is on the sanitize list carries the sentinel
PoolHeaderNames == UNION {DOMAIN x.headers : x \in RequestPool \cup ResponsePool}

SanitizedNames == {key \in PoolHeaderNames : InSanitizeList(key)}

HeadersMasked(h) == \A key \in DOMAIN h : key \in SanitizedNames => h[key] = REMOVED

MockHeadersMasked(mock) ==
    HeadersMasked(mock.requestHeaders) /\ HeadersMasked(mock.responseHeaders)

\* C1: every artifact the recorder hands to the writeMock task, from the
\* record handler or from the auto-fallback branch, and every artifact in the
\* mock directory, has the sentinel ***REMOVED*** as the value of every
\* request and response header whose name is, ignoring case, on the sanitize
\* list: the original value never reaches storage.
C1_PersistedHeadersMasked ==
    /\ \A c \in Calls : calls[c].mock # Null => MockHeadersMasked(calls[c].mock)
    /\ \A path \in DOMAIN files : MockHeadersMasked(files[path])

\* a fallback call whose request carried Authorization is on disk, masked
C1_Witness ==
    \E c \in Calls :
        /\ calls[c].kind = "fallback"
        /\ calls[c].written
        /\ "Authorization" \in DOMAIN calls[c].req.headers
        /\ calls[c].req.headers["Authorization"] = "Bearer abc123"
        /\ calls[c].filePath \in DOMAIN files
        /\ files[calls[c].filePath].requestHeaders["Authorization"] = REMOVED

\* what the full pipeline makes of a call's request and response
PipelineOutput(req, res) ==
    sanitizeRecordedData([url |-> req.url,
                          requestHeaders |-> req.headers,
                          responseHeaders |-> res.headers,
                          requestBody |-> req.body,
                          responseBody |-> res.body], defaultSanitizeOptions)

PipelineOutputOf == [x \in RequestPool \X ResponsePool |-> PipelineOutput(x[1], x[2])]

\* C2: an artifact reaches the writeMock task only after URL, header and
\* body sanitization: its url, headers and bodies are the outputs of the full
\* pipeline applied to the call's request and response.
C2_FullPipelineBeforeStorage ==
    \A c \in Calls :
        calls[c].written =>
            LET out == PipelineOutputOf[<<calls[c].req, calls[c].res>>]
            IN /\ calls[c].mock.url = out.url
               /\ calls[c].mock.requestHeaders = out.requestHeaders
               /\ calls[c].mock.responseHeaders = out.responseHeaders
               /\ calls[c].mock.requestBody = out.requestBody
               /\ calls[c].mock.response = out.responseBody

\* C3: in replay, a call whose load returned an artifact is answered with the
\* status, response headers and body of that artifact, replayedRequests grows
\* by exactly one, and the backend is not called for it.
C3_HitServedFromStore ==
    /\ [][\A c \in Calls :
            (calls[c].pc = "load_ready" /\ calls[c].loaded # Null
                /\ calls'[c].pc # "load_ready")
            => /\ calls'[c].pc = "done"
               /\ calls'[c].delivered =
                      ReplyOf(calls[c].loaded.status, calls[c].loaded.responseHeaders,
                              calls[c].loaded.response)
               /\ calls'[c].backendCalls = 0
               /\ replayedRequests' = replayedRequests + 1]_vars
    /\ [](\A c \in Calls : calls[c].kind = "hit" => calls[c].backendCalls = 0)

\* a stored 404 has been replayed
C3_Witness ==
    \E c \in Calls :
        /\ calls[c].kind = "hit"
        /\ calls[c].pc = "done"
        /\ calls[c].delivered.statusCode = 404
        /\ replayedRequests = 1

\* the backend's own answer, as the test would receive it unmodified
RawReply(res) == ReplyOf(res.statusCode, res.headers, res.body)

\* C4: in replay with autoFallback off, a filtered-in call whose load found
\* nothing is answered with status 500 and a body whose error field is set
\* and whose message names the method and the URL; the backend is not called,
\* nothing is handed to storage, and recordedRequests and replayedRequests
\* keep their values.
C4_MissWithoutFallback ==
    /\ [][\A c \in Calls :
            (calls[c].pc = "load_ready" /\ calls[c].loaded = Null
                /\ ~calls[c].autoFallback /\ calls'[c].pc # "load_ready")
            => /\ calls'[c].pc = "done"
               /\ calls'[c].kind = "notfound"
               /\ calls'[c].delivered.statusCode = 500
               /\ calls'[c].delivered.body.error = "Mock not found"
               /\ calls'[c].delivered.body.message =
                      "No mock available for " \o calls[c].req.method
                          \o " " \o calls[c].req.url
               /\ calls'[c].backendCalls = 0
               /\ calls'[c].mock = Null
               /\ UNCHANGED <<recordedRequests, replayedRequests,
                              mockCache, sessionMocks, files>>]_vars
    /\ [](\A c \in Calls :
            calls[c].kind = "notfound"
            => calls[c].pc = "done" /\ calls[c].backendCalls = 0
                  /\ calls[c].mock = Null /\ ~calls[c].written)

\* DELETE of a URL with no stored mock has been answered with the 500
C4_Witness ==
    \E c \in Calls :
        /\ calls[c].kind = "notfound"
        /\ calls[c].req.method = "delete"
        /\ calls[c].delivered.statusCode = 500
        /\ calls[c].delivered.body.message =
               "No mock available for delete http://host/posts/1"

\* C5: in replay with autoFallback on, a filtered-in call whose load found
\* nothing is forwarded to the backend exactly once; when the backend has
\* answered, saveMock has been called with the response's status and body and
\* with masked request and response headers; replayedRequests is not
\* incremented for the call.
C5_MissWithFallback ==
    /\ [][\A c \in Calls :
            (calls[c].pc = "load_ready" /\ calls[c].loaded = Null
                /\ calls[c].autoFallback /\ calls'[c].pc # "load_ready")
            => /\ calls'[c].pc = "fb_wait"
               /\ calls'[c].kind = "fallback"
               /\ calls'[c].backendCalls = 1
               /\ replayedRequests' = replayedRequests]_vars
    /\ [][\A c \in Calls :
            (calls[c].kind = "fallback" /\ calls'[c] # calls[c])
            => replayedRequests' = replayedRequests]_vars
    /\ [](\A c \in Calls :
            calls[c].kind = "fallback"
            => /\ calls[c].backendCalls = 1
               /\ calls[c].pc # "fb_wait"
                  => /\ calls[c].mock # Null
                     /\ calls[c].mock.status = calls[c].res.statusCode
                     /\ calls[c].mock.response = calls[c].res.body
                     /\ calls[c].mock.url = calls[c].req.url
                     /\ MockHeadersMasked(calls[c].mock)
                     /\ calls[c].filePath =
                            PathOf[<<calls[c].req.method, calls[c].req.url>>])

\* a fallback response with a Set-Cookie header has been written, masked
C5_Witness ==
    \E c \in Calls :
        /\ calls[c].kind = "fallback"
        /\ calls[c].written
        /\ calls[c].backendCalls = 1
        /\ "Set-Cookie" \in DOMAIN calls[c].res.headers
        /\ calls[c].mock.responseHeaders["Set-Cookie"] = REMOVED
        /\ replayedRequests = 0

\* C6: in replay, once the save of an auto-fallback miss for a request has
\* completed (and the mocks have not been cleared since), the next
\* intercepted request with the same method and URL is served from the
\* stored mock: the backend is not called and replayedRequests grows by one.
C6_FallbackRepairsGap ==
    /\ [](\A c \in Calls :
            (calls[c].expectHit /\ calls[c].kind # "none")
            => calls[c].kind = "hit" /\ calls[c].backendCalls = 0)
    /\ [][\A c \in Calls :
            (calls[c].expectHit /\ calls[c].pc = "load_ready"
                /\ calls'[c].pc # "load_ready")
            => /\ calls'[c].kind = "hit"
               /\ calls'[c].delivered = HitReply(calls[c].loaded)
               /\ replayedRequests' = replayedRequests + 1]_vars

\* the request of an earlier fallback save has come again and was a hit
C6_Witness ==
    \E c \in Calls :
        /\ calls[c].expectHit
        /\ calls[c].kind = "hit"
        /\ calls[c].backendCalls = 0
        /\ <<calls[c].req.method, calls[c].req.url>> \in repaired

\* C7: in record mode recordedRequests is incremented for a call only after
\* that call's save has completed: every increment is by one and is the step
\* of a call whose writeMock task has written the file and whose saveMock
\* callback has run; a call waiting for the backend, waiting for the
\* task, or whose task failed, has not been counted.
C7_RecordedAfterSave ==
    /\ [][recordedRequests' > recordedRequests
            => /\ recordedRequests' = recordedRequests + 1
               /\ \E c \in Calls :
                    /\ calls[c].kind = "recorded"
                    /\ calls[c].pc = "pushed"
                    /\ calls[c].written
                    /\ calls'[c].pc = "done"
                    /\ calls'[c].counted]_vars
    /\ [](\A c \in Calls :
            calls[c].counted
            => calls[c].kind = "recorded" /\ calls[c].written /\ calls[c].pc = "done")

\* a recorded call has been counted after its file was written
C7_Witness ==
    \E c \in Calls :
        /\ calls[c].kind = "recorded"
        /\ calls[c].counted
        /\ calls[c].written
        /\ recordedRequests = 1

\* C8: after the save of a forwarded auto-fallback response has succeeded
\* and the call is over, recordedRequests has been incremented for it, as it
\* is for a call of the record handler.
C8_FallbackCountsAsRecorded ==
    \A c \in Calls :
        (calls[c].kind = "fallback" /\ calls[c].pc = "done" /\ calls[c].written)
        => calls[c].counted

\* C9: in record mode and on the fallback path the status, headers and body
\* delivered to the test are those the backend returned, the headers on the
\* sanitize list included: sanitizeHeaders leaves the header object it is
\* given as it was.
C9_DeliveredUnsanitized ==
    \A c \in Calls :
        (calls[c].kind \in {"recorded", "fallback"} /\ calls[c].delivered # Null)
        => calls[c].delivered = RawReply(calls[c].res)

\* the test has received the backend's Set-Cookie while the mock holds the
\* sentinel
C9_Witness ==
    \E c \in Calls :
        /\ calls[c].kind \in {"recorded", "fallback"}
        /\ calls[c].delivered # Null
        /\ "Set-Cookie" \in DOMAIN calls[c].delivered.headers
        /\ calls[c].delivered.headers["Set-Cookie"] = "sid=9"
        /\ calls[c].mock.responseHeaders["Set-Cookie"] = REMOVED

\* C10: under the record and the replay handler, a call whose URL fails
\* shouldRecordUrl is forwarded as it is and answered by the backend; no
\* load and no save is made for it, and its steps leave the three counters,
\* the cache, the session list and the mock directory unchanged.
C10_FilteredOutUntouched ==
    /\ [](\A c \in Calls :
            (calls[c].via \in {"record", "replay"} /\ ~ShouldRecord[calls[c].req.url])
            => /\ calls[c].kind = "skipped"
               /\ calls[c].backendCalls = 1
               /\ calls[c].mock = Null
               /\ calls[c].loaded = Null
               /\ ~calls[c].written
               /\ calls[c].delivered # Null => calls[c].delivered = RawReply(calls[c].res))
    /\ [][\A c \in Calls :
            (calls'[c].kind = "skipped" /\ calls'[c] # calls[c])
            => UNCHANGED <<interceptedRequests, recordedRequests, replayedRequests,
                           mockCache, sessionMocks, files>>]_vars

\* a request for a static file went through the replay handler to the backend
C10_Witness ==
    \E c \in Calls :
        /\ calls[c].via = "replay"
        /\ calls[c].kind = "skipped"
        /\ calls[c].req.url = "/static/app.js"
        /\ calls[c].pc = "done"
        /\ calls[c].delivered = RawReply(calls[c].res)

\* C11: while the recorder is in passthrough (never initialized, or the last
\* initialize read a mode other than record, replay and mock), a call that
\* is made goes to the backend as it is, and neither a counter nor the
\* cache, the session list or the mock directory is touched for it, whatever
\* initialize and stop calls came before.
C11_PassthroughForwardsAll ==
    /\ [][\A c \in Calls :
            (currentMode = "passthrough" /\ calls[c].pc = "idle"
                /\ calls'[c].pc # "idle")
            => /\ calls'[c].kind \in {"passthrough", "skipped"}
               /\ calls'[c].pc = "net_wait"
               /\ calls'[c].backendCalls = 1
               /\ UNCHANGED <<interceptedRequests, recordedRequests, replayedRequests,
                              mockCache, sessionMocks, files>>]_vars

\* C12: right after every initialize the three counters are zero and the
\* flags follow the mode read: record sets isRecording only, replay or mock
\* (in any letter case) sets isReplaying only, anything else sets neither;
\* the two flags are never both true.
C12_InitializeResets ==
    /\ [][\A env \in EnvModes, af \in BOOLEAN :
            initNetworkRecorder(env, af)
            => /\ interceptedRequests' = 0
               /\ recordedRequests' = 0
               /\ replayedRequests' = 0
               /\ isRecording' = (env = "record")
               /\ isReplaying' = (env \in {"REPLAY", "mock"})]_vars
    /\ [](~(isRecording /\ isReplaying))

\* initialize in replay mode has reset the counter of a call intercepted by
\* the record handler and still waiting for the backend
C12_Witness ==
    /\ currentMode = "replay"
    /\ isReplaying
    /\ ~isRecording
    /\ interceptedRequests = 0
    /\ \E c \in Calls : calls[c].via = "record" /\ calls[c].pc = "rec_wait"

\* stop has been called since the last initialize, which read record or replay
Stopped == ~isRecording /\ ~isReplaying /\ currentMode \in {"record", "replay"}

\* C13: stop clears both flags and changes no counter, and from then until
\* the next initialize the three counters keep their values, also while
\* calls are in flight and when calls are intercepted after the stop.
C13_CountersFrozenAfterStop ==
    [][Stopped' => UNCHANGED <<interceptedRequests, recordedRequests,
                               replayedRequests>>]_vars

StoredAt(method, url) ==
    IF PathOf[<<method, url>>] \in DOMAIN files
    THEN files[PathOf[<<method, url>>]] ELSE Null

\* C15: round trip: whatever loads, preloads and saves came before, in the
\* state in which a save of a mock under a signature completes, a load of
\* that signature returns a mock equal to the saved one in every field.
C15_LoadAfterSaveReturnsSaved ==
    [][\A c \in Calls :
          (calls[c].kind = "direct" /\ calls[c].pc = "written" /\ calls'[c].pc = "done")
          => LoadResult(calls[c].req.method, calls[c].req.url)' = calls[c].mock]_vars

\* C16: when clearAllMocks has completed, no file is listed, the session
\* list is empty, and a load of any signature, those stored or cached
\* before included, returns null.
C16_ClearAllEmptiesStore ==
    \A c \in Calls :
        (calls[c].kind = "clear" /\ calls[c].pc = "done")
        => /\ DOMAIN files = {}
           /\ sessionMocks = <<>>
           /\ \A r \in StorePool : LoadResult(r.method, r.url) = Null

\* clearAllMocks has completed on a directory that held files
C16_Witness ==
    \E c \in Calls :
        /\ calls[c].kind = "clear"
        /\ calls[c].pc = "done"
        /\ calls[c].written
        /\ files = <<>>

\* C17: a load whose cache key is in the cache returns the cached mock; it
\* issues no readMock task and leaves the cache, the session list and the
\* mock directory unchanged.
C17_CachedLoadSkipsStorage ==
    /\ [][\A c \in Calls, r \in StorePool :
            (StoreLoad(c, r) /\ KeyOf[<<r.method, r.url>>] \in DOMAIN mockCache)
            => /\ calls'[c].pc = "load_ready"
               /\ calls'[c].loaded = mockCache[KeyOf[<<r.method, r.url>>]]
               /\ UNCHANGED <<mockCache, sessionMocks, files>>]_vars
    /\ [][\A c \in Calls :
            (calls[c].kind = "load" /\ calls[c].pc = "load_ready"
                /\ calls'[c].pc # "load_ready")
            => /\ calls'[c].pc = "done"
               /\ calls'[c].delivered = calls[c].loaded
               /\ UNCHANGED <<mockCache, sessionMocks, files>>]_vars

\* a load was answered from the cache after the file had been deleted
C17_Witness ==
    \E c \in Calls :
        /\ calls[c].kind = "load"
        /\ calls[c].pc = "done"
        /\ calls[c].delivered # Null
        /\ StoredAt(calls[c].req.method, calls[c].req.url) # calls[c].delivered

\* C18: a load that misses the cache asks the readMock task; a mock found
\* is in the cache under the signature's key when the load returns it; when
\* no file exists the load returns null and the cache stays as it was.
C18_MissDelegatesToStorage ==
    /\ [][\A c \in Calls, r \in StorePool :
            (StoreLoad(c, r) /\ KeyOf[<<r.method, r.url>>] \notin DOMAIN mockCache)
            => calls'[c].pc = "load_read"]_vars
    /\ [][\A c \in Calls :
            (calls[c].kind = "load" /\ calls[c].pc = "load_read"
                /\ calls'[c].pc # "load_read")
            => /\ calls'[c].pc = "load_result"
               /\ calls'[c].loaded = StoredAt(calls[c].req.method, calls[c].req.url)
               /\ UNCHANGED mockCache]_vars
    /\ [][\A c \in Calls :
            (calls[c].kind = "load" /\ calls[c].pc = "load_result"
                /\ calls'[c].pc # "load_result")
            => /\ calls'[c].pc = "load_ready"
               /\ calls'[c].loaded = calls[c].loaded
               /\ IF calls[c].loaded = Null
                  THEN mockCache' = mockCache
                  ELSE LET key == KeyOf[<<calls[c].req.method, calls[c].req.url>>]
                       IN /\ DOMAIN mockCache' = DOMAIN mockCache \cup {key}
                          /\ mockCache'[key] = calls[c].loaded
                          /\ \A k \in DOMAIN mockCache \ {key} :
                                mockCache'[k] = mockCache[k]]_vars
    /\ [](\A k \in DOMAIN mockCache : mockCache[k] # Null)

\* a load of a signature with no file has returned null, the cache left empty
C18_Witness ==
    \E c \in Calls :
        /\ calls[c].kind = "load"
        /\ calls[c].pc = "done"
        /\ calls[c].delivered = Null
        /\ KeyOf[<<calls[c].req.method, calls[c].req.url>>] \notin DOMAIN mockCache
        /\ files # <<>>

\* C19: a successful save appends one entry, its file path, to the session
\* list and leaves the cache alone; the cache changes only in steps of load,
\* preload, clearCache and clearAllMocks; pushing onto the array that
\* getSessionMocks returned does not change the store's list.
C19_SaveGrowsSessionListOnly ==
    /\ [][\A c \in Calls :
            (calls[c].kind = "direct" /\ calls[c].pc = "written"
                /\ calls'[c].pc # "written")
            => /\ sessionMocks' = Append(sessionMocks, calls[c].filePath)
               /\ calls[c].filePath = PathOf[<<calls[c].req.method, calls[c].req.url>>]
               /\ mockCache' = mockCache]_vars
    /\ [][\A c \in Calls :
            (calls'[c].kind = "direct" /\ calls'[c] # calls[c]
                /\ ~(calls[c].pc = "written"))
            => UNCHANGED <<sessionMocks, mockCache>>]_vars
    /\ [][mockCache' # mockCache
            => \E c \in Calls :
                  /\ calls'[c] # calls[c]
                  /\ calls'[c].kind \in {"load", "preload", "clearcache", "clear"}]_vars
    /\ [][\A c \in Calls :
            (calls'[c].kind = "snapshot" /\ calls'[c] # calls[c])
            => sessionMocks' = sessionMocks]_vars

\* a save has completed with something in the cache, which it left alone
C19_Witness ==
    \E c \in Calls :
        /\ calls[c].kind = "direct"
        /\ calls[c].pc = "done"
        /\ calls[c].written
        /\ mockCache # <<>>
        /\ KeyOf[<<calls[c].req.method, calls[c].req.url>>] \notin DOMAIN mockCache
        /\ sessionMocks[Len(sessionMocks)] = calls[c].filePath

\* C20: clearCache changes neither the mock directory nor the session list,
\* and right after it a load of any signature returns the file stored at
\* the signature's path, or null when there is none.
C20_ClearCacheIsSafe ==
    /\ [][\A c \in Calls :
            (calls'[c].kind = "clearcache" /\ calls'[c] # calls[c])
            => /\ files' = files
               /\ sessionMocks' = sessionMocks
               /\ clearTasks' = clearTasks]_vars
    /\ [](\A c \in Calls :
            (calls[c].kind = "clearcache" /\ calls[c].pc = "done")
            => \A r \in StorePool :
                  LoadResult(r.method, r.url) = StoredAt(r.method, r.url))

\* the cache has been cleared while the directory and the session list hold
\* entries
C20_Witness ==
    \E c \in Calls :
        /\ calls[c].kind = "clearcache"
        /\ calls[c].pc = "done"
        /\ mockCache = <<>>
        /\ files # <<>>
        /\ sessionMocks # <<>>

\* C21: a storage read failure during load (a corrupt or unreadable file) is
\* treated as absence: the read step of a replayed call whose file cannot be
\* parsed ends with loadMock's result null and no error, so the call goes on
\* to the miss policy
C21_ReadFailureIsAbsence ==
    [][\A c \in Calls :
          (/\ calls[c].pc = "load_read"
           /\ ParseThrows(PathOf[<<calls[c].req.method, calls[c].req.url>>])
           /\ calls'[c].pc # "load_read")
          => (/\ calls'[c].pc = "load_result"
              /\ calls'[c].loaded = Null
              /\ calls'[c].error = "")]_vars

\* the mocks preloadMocks could read from the files it listed
ReadableListed ==
    {path \in DOMAIN files : files[path] # Corrupt}

\* C23: preload tolerates individual read failures: a finished preload has
\* completed with a count, and every stored file that can be parsed is in
\* the cache, whatever the other files hold
C23_PreloadSkipsCorrupt ==
    \A c \in Calls :
        (calls[c].kind = "preload" /\ calls[c].pc = "done")
        => (/\ calls[c].error = ""
            /\ calls[c].delivered = [count |-> Cardinality(DOMAIN mockCache)]
            /\ \A path \in ReadableListed :
                  \E k \in DOMAIN mockCache : mockCache[k] = files[path])

\* C22: when the storage write of a save fails, the failure reaches the
\* caller of save as an error, the path does not join the session list,
\* recorded is not incremented, and the response already handed to the test
\* for the call stays as it was, then and for as long as the call is there
C22_WriteFailureSurfaced ==
    [][\A c \in Calls :
          /\ (/\ calls[c].pc = "write"
              /\ calls'[c].pc # "write"
              /\ ~calls'[c].written)
             => (/\ calls'[c].error = "writeMock"
                 /\ calls'[c].pc = "done"
                 /\ sessionMocks' = sessionMocks
                 /\ recordedRequests' = recordedRequests
                 /\ calls'[c].delivered = calls[c].delivered
                 /\ calls'[c].delivered # Null)
          /\ (calls[c].error = "writeMock" /\ calls'[c].pc # "retired")
             => (/\ calls'[c].pc = "done"
                 /\ ~calls'[c].counted
                 /\ calls'[c].delivered = calls[c].delivered)]_vars

\* a recorded call whose write failed: the test has the backend's response,
\* nothing was pushed or counted
C22_Witness ==
    \E c \in Calls :
        /\ calls[c].error = "writeMock"
        /\ calls[c].kind = "recorded"
        /\ calls[c].delivered =
              ReplyOf(calls[c].res.statusCode,
                      ResponseAfterCallbackOf[calls[c].res].headers, calls[c].res.body)
        /\ sessionMocks = <<>>
        /\ recordedRequests = 0
        /\ interceptedRequests = 1

\* C24: shouldRecordUrl looks at the exclude patterns before the include
\* patterns and defaults to true: its result is false exactly when an
\* exclude pattern matches the URL, whatever the letter case; a URL that
\* matches both lists gives false and a URL that matches neither gives true
C24_ExcludeWinsDefaultAllow ==
    \A c \in Calls :
        (calls[c].kind = "shouldRecordUrl" /\ calls[c].pc = "done")
        => LET u == calls[c].req.url
               result == calls[c].delivered.value
           IN /\ result = ~MatchesExclude(u)
              /\ (MatchesInclude(u) /\ MatchesExclude(u)) => result = FALSE
              /\ (~MatchesInclude(u) /\ ~MatchesExclude(u)) => result = TRUE
              /\ u \in {"/api/logo.png", "/STATIC/app.JS", "http://host/api/x.css"}
                    => result = FALSE
              /\ u \in {"/other", "/API/users", "/users.json", "/app.js?v=1"}
                    => result = TRUE

\* shouldRecordUrl was applied to a URL that matches both lists
C24_Witness ==
    \E c \in Calls :
        /\ calls[c].kind = "shouldRecordUrl"
        /\ calls[c].pc = "done"
        /\ calls[c].req.url = "/api/logo.png"
        /\ MatchesInclude(calls[c].req.url)
        /\ MatchesExclude(calls[c].req.url)
        /\ calls[c].delivered.value = FALSE

\* the pieces of the query of a URL, sorted as strings
SortedQueryPieces(u) ==
    LET q == IndexOf(u, "?")
    IN IF q = 0 THEN <<>> ELSE SortStrings(Split(DropFirst(u, q), "&"))

\* the URLs of the pool that differ from u in the order of the query
\* parameters only
ReorderingsOf ==
    [u \in UrlPool |->
        {v \in UrlPool : /\ Split(v, "?")[1] = Split(u, "?")[1]
                         /\ SortedQueryPieces(v) = SortedQueryPieces(u)}]

\* C25: query-order invariance: two URLs, relative or absolute, that differ
\* only in the order of their query parameters get the same normalizedUrl
\* from createRequestSignature and the same path from generateMockPath
C25_QueryOrderInvariance ==
    \A c \in Calls :
        (calls[c].kind = "createRequestSignature" /\ calls[c].pc = "done")
        => \A v \in ReorderingsOf[calls[c].req.url] :
              /\ SignatureOf[<<calls[c].req.method, v>>].normalizedUrl
                    = calls[c].delivered.normalizedUrl
              /\ MockPathOfSignature[<<calls[c].req.method, v>>] = calls[c].filePath

\* C26: GET http://host/posts?userId=1 has the signature method GET,
\* pathname /posts, queryParams {userId: 1}, and its mock is stored at
\* <mockDir>/posts/get_posts_<hash>.json, <hash> the short hash of userId=1
C26_ScenarioASignature ==
    \A c \in Calls :
        (/\ calls[c].kind = "createRequestSignature"
         /\ calls[c].pc = "done"
         /\ calls[c].req.method = "GET"
         /\ calls[c].req.url = "http://host/posts?userId=1")
        => (/\ calls[c].delivered.method = "GET"
            /\ calls[c].delivered.pathname = "/posts"
            /\ calls[c].delivered.queryParams = [userId |-> "1"]
            /\ calls[c].filePath =
                  mockDir \o "/posts/get_posts_" \o simpleHash("userId=1") \o ".json")

\* C27 as stated: normalizeUrl('not a url') returns the input unchanged
C27_NotAUrlUnchanged ==
    \A c \in Calls :
        (/\ calls[c].kind = "normalizeUrl"
         /\ calls[c].pc = "done"
         /\ calls[c].req.url = "not a url")
        => calls[c].delivered.value = "not a url"

\* new URL(u, baseUrl) throws
ConstructorThrows(u) == ~ParseUrl(u, BaseUrlFor(u)).ok

\* C27 as amended: normalizeUrl('not a url') raises nothing and returns
\* '/not%20a%20url', the input resolved as a relative reference; whenever
\* the URL constructor throws, normalizeUrl returns its input, extractPathname
\* the part before the first ?, extractQueryParams {}; no URL makes
\* normalizeUrl or createRequestSignature raise
C27_FailOpen ==
    \A c \in Calls :
        /\ (calls[c].kind = "normalizeUrl" /\ calls[c].pc = "done")
           => LET u == calls[c].req.url
                  result == calls[c].delivered.value
              IN /\ result # InvalidUrlError
                 /\ u = "not a url" => result = "/not%20a%20url"
                 /\ ConstructorThrows(u) => result = u
        /\ (calls[c].kind = "createRequestSignature" /\ calls[c].pc = "done")
           => LET u == calls[c].req.url
                  signature == calls[c].delivered
              IN /\ signature.normalizedUrl # InvalidUrlError
                 /\ ConstructorThrows(u)
                       => (/\ signature.normalizedUrl = u
                           /\ signature.pathname = Split(u, "?")[1]
                           /\ signature.queryParams = <<>>)

\* normalizeUrl was applied to 'not a url'
C27_Witness ==
    \E c \in Calls :
        /\ calls[c].kind = "normalizeUrl"
        /\ calls[c].pc = "done"
        /\ calls[c].req.url = "not a url"
        /\ ~ConstructorThrows(calls[c].req.url)
        /\ calls[c].delivered.value = "/not%20a%20url"

\* C28: normalization is idempotent: normalizeUrl applied to a result of
\* normalizeUrl returns that result
C28_NormalizeIdempotent ==
    \A c \in Calls :
        (calls[c].kind = "normalizeUrl" /\ calls[c].pc = "done")
        => normalizeUrl(calls[c].delivered.value) = calls[c].delivered.value

\* the calls that passed the filter of the record handler
PassedFilter == {c \in Calls : calls[c].kind = "recorded"}

\* every call has its response and every save has succeeded
AllSettled == \A c \in Calls : calls[c].pc = "done" /\ calls[c].error = ""

\* C29: no lost updates under interleaving: intercepted counts the calls
\* that passed the filter, recorded the calls whose save completed, and the
\* session list has one entry per completed save, in every interleaving;
\* once all N calls are settled the three are N, N being the number of
\* calls that passed the filter
C29_NoLostUpdates ==
    /\ interceptedRequests = Cardinality(PassedFilter)
    /\ recordedRequests = Cardinality({c \in Calls : calls[c].counted})
    /\ Len(sessionMocks) =
          Cardinality({c \in Calls : calls[c].pc = "pushed" \/ calls[c].counted})
    /\ AllSettled
          => (/\ interceptedRequests = Cardinality(PassedFilter)
              /\ recordedRequests = Cardinality(PassedFilter)
              /\ Len(sessionMocks) = Cardinality(PassedFilter)
              /\ \A c \in PassedFilter :
                    Cardinality({i \in DOMAIN sessionMocks :
                                    sessionMocks[i] = calls[c].filePath})
                    = Cardinality({d \in PassedFilter :
                                      calls[d].filePath = calls[c].filePath}))

\* all the calls passed the filter and are settled, and the save of a later
\* call completed before the save of the first
C29_Witness ==
    /\ AllSettled
    /\ PassedFilter = Calls
    /\ recordedRequests = MaxCalls
    /\ Len(sessionMocks) = MaxCalls
    /\ sessionMocks[1] # calls[1].filePath

\* the replay handler answered the call itself: req.reply with the stored
\* mock or with the 500 mock-not-found reply, and no forward
RepliedTo(c) ==
    /\ calls[c].backendCalls = 0
    /\ \/ (calls[c].loaded # Null /\ calls[c].delivered = HitReply(calls[c].loaded))
       \/ (calls[c].loaded = Null /\ calls[c].delivered = NotFoundReply(calls[c].req))

\* the replay handler forwarded the call to the backend, once, and sent no
\* reply of its own
ForwardedToBackend(c) ==
    /\ calls[c].backendCalls = 1
    /\ calls[c].loaded = Null
    /\ calls[c].delivered # NotFoundReply(calls[c].req)

\* C30: in replay mode every intercepted call that passes the filter is
\* resolved exactly once, by a reply with the stored mock, by a forward to
\* the backend or by the 500 reply: a call the handler and its callbacks
\* have finished with was either replied to or forwarded, never both and
\* never neither
C30_ReplayResolvedOnce ==
    \A c \in Calls :
        (/\ calls[c].via = "replay"
         /\ calls[c].kind # "skipped"
         /\ calls[c].pc = "done")
        => (RepliedTo(c) # ForwardedToBackend(c))

\* C31: in every reachable state recordedRequests + replayedRequests is at
\* most interceptedRequests, also when initNetworkRecorder runs again while
\* a call intercepted before it still waits for its response, load or save
C31_CountersBounded ==
    recordedRequests + replayedRequests <= interceptedRequests

\* no saveMock, loadMock, preloadMocks or clearAllMocks has a task or a
\* callback outstanding
NoOperationInFlight ==
    /\ clearTasks = 0
    /\ \A c \in Calls : calls[c].pc \in {"idle", "done", "retired"}

\* C32: once no store operation is in flight, every cache entry has its
\* file in the mock directory at the path of its request, so the file of a
\* request exists exactly when loadMock returns a mock for it
C32_CacheBackedByStorage ==
    NoOperationInFlight =>
        \A r \in StorePool :
            /\ KeyOf[<<r.method, r.url>>] \in DOMAIN mockCache
                  => PathOf[<<r.method, r.url>>] \in DOMAIN files
            /\ (PathOf[<<r.method, r.url>>] \in DOMAIN files)
                  <=> (LoadResult(r.method, r.url) # Null)

\* C33: a mock served by the replay handler was recorded from a request
\* with the same upper-cased method and the same normalized URL as the
\* request it is served for
C33_ServedMockMatchesRequest ==
    \A c \in Calls :
        (calls[c].via = "replay" /\ calls[c].kind = "hit")
        => CacheKeyOf(calls[c].loaded.method, calls[c].loaded.url)
              = KeyOf[<<calls[c].req.method, calls[c].req.url>>]

\* C34: equal signatures get the same path from generateMockPath, and two
\* signatures without query parameters that differ in method or in pathname
\* get different paths
C34_PathsSeparateRequests ==
    \A c \in Calls :
        (calls[c].kind = "createRequestSignature" /\ calls[c].pc = "done")
        => \A k \in MethodPool \X UrlPool :
              /\ SignatureOf[k] = calls[c].delivered
                    => MockPathOfSignature[k] = calls[c].filePath
              /\ (/\ SignatureOf[k].queryParams = <<>>
                  /\ calls[c].delivered.queryParams = <<>>
                  /\ \/ SignatureOf[k].method # calls[c].delivered.method
                     \/ SignatureOf[k].pathname # calls[c].delivered.pathname)
                    => MockPathOfSignature[k] # calls[c].filePath

\* stable insertion of the pair e into a sequence sorted by key
RECURSIVE InsertByKey(_, _)
InsertByKey(e, seq) ==
    IF Len(seq) = 0 THEN <<e>>
    ELSE IF StrLess(e[1], seq[1][1]) THEN <<e>> \o seq
    ELSE <<seq[1]>> \o InsertByKey(e, Tail(seq))

\* the pairs sorted by key, pairs of one key in their order in seq
RECURSIVE StableSortByKey(_)
StableSortByKey(seq) ==
    IF Len(seq) = 0 THEN <<>>
    ELSE InsertByKey(seq[Len(seq)], StableSortByKey(SubSeq(seq, 1, Len(seq) - 1)))

\* the [name, value] pairs of the query of a URL string
QueryEntries(u) ==
    IF IndexOf(u, "?") = 0 THEN <<>> ELSE SearchParams(DropFirst(u, IndexOf(u, "?")))

\* the query parameters of every URL of the pool, before and after
\* normalizeUrl, and in the order the stable sort by key gives
EntriesOf == [u \in UrlPool |-> QueryEntries(u)]

NormalizedEntriesOf == [u \in UrlPool |-> QueryEntries(NormalizedOf[u])]

StableEntriesOf == [u \in UrlPool |-> StableSortByKey(EntriesOf[u])]

\* C35: the query parameters of normalizeUrl's result are those of its
\* input sorted by key with a stable sort: keys in lexicographic order,
\* the values of one key in their order in the input
C35_StableSortByKey ==
    \A c \in Calls :
        (calls[c].kind = "normalizeUrl" /\ calls[c].pc = "done")
        => QueryEntries(calls[c].delivered.value) = StableEntriesOf[calls[c].req.url]

\* the number of files a completed preloadMocks read and put into the
\* cache: calls run one after the other here, so the directory it listed
\* is the directory as it still is, and every file of it was read
FilesPreloaded == Cardinality(DOMAIN files)

\* C36: preloadMocks returns the number of stored mocks it read and put
\* into the cache during the call, whatever the cache held before and
\* whatever requests the mocks were recorded from
C36_PreloadCountsLoaded ==
    \A c \in Calls :
        (calls[c].kind = "preload" /\ calls[c].pc = "done" /\ calls[c].error = "")
        => calls[c].delivered.count = FilesPreloaded

\* C37: whatever the options, a header of the input whose name is on the
\* sanitize list, ignoring case, is absent from sanitizeHeaders' output or
\* carries the sentinel there
C37_SanitizationComplete ==
    \A c \in Calls :
        (calls[c].kind = "sanitizeHeaders" /\ calls[c].pc = "done")
        => \A key \in DOMAIN calls[c].req.headers :
              InSanitizeList(key)
              => \/ key \notin DOMAIN calls[c].delivered.value
                 \/ calls[c].delivered.value[key] = REMOVED

\* C38: with options.sanitizeCookies set, every Cookie and Set-Cookie header
\* of the input, ignoring case, is in sanitizeHeaders' output with the
\* sentinel as its value, whatever the other options are
C38_CookiesMasked ==
    \A c \in Calls :
        (/\ calls[c].kind = "sanitizeHeaders"
         /\ calls[c].pc = "done"
         /\ OptionSet(calls[c].delivered.options, "sanitizeCookies"))
        => \A key \in DOMAIN calls[c].req.headers :
              IsCookieHeader(key)
              => /\ key \in DOMAIN calls[c].delivered.value
                 /\ calls[c].delivered.value[key] = REMOVED

\* the sentinel where resolveDynamicPlaceholders finds no field mapping
\* for it: the top-level string, and the fields the value map does not name
DefaultResolved(data, values) ==
    IF IsStr(data) THEN Str(ValueAt(values, "_default"))
    ELSE Obj([key \in DOMAIN data.obj |->
                 IF data.obj[key] = Str(dynamicPlaceholder) /\ ~HasKey(values, key)
                 THEN Str(ValueAt(values, "_default"))
                 ELSE data.obj[key]])

\* C39: resolveDynamicPlaceholders applied to the output of
\* applyDynamicPlaceholders, with the value map of the same patterns,
\* returns the original data, also for a string in which a tracked value
\* occurs more than once; and a sentinel without a field mapping resolves
\* to the value under the key _default
C39_ApplyResolveRoundTrip ==
    \A c \in Calls :
        /\ (calls[c].kind = "resolveDynamicPlaceholders" /\ calls[c].pc = "done")
              => calls[c].delivered.value = calls[c].req.body
        /\ (calls[c].kind = "resolveWithDefault" /\ calls[c].pc = "done")
              => calls[c].delivered.value
                    = DefaultResolved(calls[c].req.body, calls[c].delivered.values)

====
